---- MODULE Spec2Model ----
(***************************************************************************)
(* The worker communication protocol of the beartest test explorer:        *)
(* runWithProtocol over a local socket (src/src/testItemRegistry.ts),      *)
(* runWithProtocol over the child's stdio                                  *)
(* (src/src/protocol/BeartestProtocolClient.ts) and                        *)
(* TestRunner.runBeartestProcess (src/src/testRunner.ts).                  *)
(*                                                                         *)
(* One run is one promise plus the callbacks registered on the socket      *)
(* server, the client socket, the child process, the cancellation token    *)
(* and the grace timer.  Every callback runs to completion (single         *)
(* threaded event loop); an async handler is cut at its `await`.           *)
(*                                                                         *)
(* These specifications share the module:                                  *)
(*   Spec, LiveSpec  the session: lifecycle, cancellation, teardown        *)
(*   CmdSpec         the command channel: request -> `run` command ->      *)
(*                   bytes -> the worker's receiver                        *)
(*   RespSpec        the response channel: the worker's stream in chunks   *)
(*                   -> the parent's receivers and the output sink         *)
(*   SyncSpec        the test tree synchronizer: events -> tree, statuses  *)
(*   FailSpec        a test:fail event: worker error -> TestMessage        *)
(*   GroupSpec       groupFilesByConfig: files, configurations -> groups   *)
(*   WorkerSpec      the worker script: startup, commands, responses       *)
(*   HostSpec, HostLiveSpec   TestRunner.runTests around the session       *)
(*   ConcurrentSpec  HostSpec with further requests of the run profile     *)
(*   IdSpec          createOrGetTestItem over the keys of a run            *)
(*   DiscSpec        the discovery: watcher notifications -> tree -> files *)
(* Each keeps the components of the others at rest.                        *)
(***************************************************************************)
EXTENDS Integers, Sequences, FiniteSets, TLC

\* ------------------------------------------------------------------ bounds
\* responses the worker delivers in one run
MaxMsgs == 3
\* responses decoded from one data chunk
MaxChunk == 2
\* chunks written to the diagnostic stream
MaxStderr == 1

\* `code === null`: the process was ended by a signal
NullCode == -1

Variants == {"socket", "stdio", "legacy"}

VARIABLES
  variant,          \* which implementation of the run this is
  st,               \* the closure state of the run (see InitSt)
  procState,        \* child process: none | running | failed | exited
  exitCode,         \* the code the child 'close' event reports
  stderr,           \* bufferState.stderr / stderrBuffer
  childCloseFired,  \* child.on("close") has run
  childErrFired,    \* child.on("error") has run
  sockErrFired,     \* socket.on("error") has run
  serverErrFired,   \* socketServer.on("error") has run
  cancelRequested,  \* token.onCancellationRequested has run
  delivered,        \* number of responses the channel has delivered
  tasks,            \* invocations of handleMessages suspended at `await onEvent`
  cmdCh,            \* command channel: request, command, bytes in flight, worker side
  respCh,           \* response channel: bytes in flight, parent buffers, decoded, sink
  sync,             \* test tree synchronizer: tree, testItemMap, suiteStack, statuses
  failMsg,          \* a test:fail event from the worker to the message run.failed gets
  worker,           \* the worker script: startup, commands, responses sent, exit
  grouping,         \* files and configurations given to groupFilesByConfig, its result
  host,             \* TestRunner.runTests invocations: test runs, messages shown
  disc              \* the test discovery: the tree of folder and file items

sessionVars == <<variant, st, procState, exitCode, stderr, childCloseFired,
                 childErrFired, sockErrFired, serverErrFired, cancelRequested,
                 delivered, tasks>>

vars == <<sessionVars, cmdCh, respCh, sync, failMsg, worker, grouping, host, disc>>

\* value of a component the specification at hand does not exercise
Idle == [phase |-> "idle"]

\* ------------------------------------------------------------ run closure
ErrorOf(kind) == [kind |-> kind, text |-> <<>>, code |-> 0]

\* bufferState.stderr || `Runner exited with code ${code}`
ExitMessage(text, code) ==
  IF text # <<>> THEN [kind |-> "stderr", text |-> text, code |-> 0]
  ELSE [kind |-> "exit", text |-> <<>>, code |-> code]

InitSt(v) ==
  [ isReady |-> FALSE,
    isComplete |-> FALSE,
    clientSocket |-> FALSE,          \* clientSocket # null
    socketServer |-> IF v = "socket" THEN "starting" ELSE "null",
    sock |-> "none",                 \* the client socket: none | open | closing | closed
    killed |-> FALSE,                \* child.killed
    timer |-> FALSE,                 \* the grace timer is pending
    outcome |-> "pending",           \* the promise: pending | resolved | rejected
    reason |-> [kind |-> "none", text |-> <<>>, code |-> 0],  \* the rejection's error
    cause |-> "none",                \* the callback that settled the promise
    cmds |-> <<>>,                   \* commands written to the channel
    nCleanup |-> 0,                  \* invocations of cleanup()
    begun |-> {},                    \* responses whose application has begun
    inProgress |-> {},               \* onEvent promises not yet settled
    late |-> {},                     \* effects of responses handled after the promise settled
    terminalSeen |-> FALSE,          \* a complete or error response has been handled
    nOnError |-> 0,                  \* invocations of handlers.onError
    pendingAtCancel |-> FALSE ]      \* the promise was pending when cancellation arrived

resolve(s, why) ==
  IF s.outcome = "pending"
  THEN [s EXCEPT !.outcome = "resolved", !.cause = why]
  ELSE s

reject(s, err, why) ==
  IF s.outcome = "pending"
  THEN [s EXCEPT !.outcome = "rejected", !.reason = err, !.cause = why]
  ELSE s

cleanup(s) ==
  LET s1 == IF s.clientSocket
            THEN [s EXCEPT !.clientSocket = FALSE,
                           !.sock = IF @ = "open" THEN "closing" ELSE @]
            ELSE s
      s2 == IF s1.socketServer # "null"
            THEN [s1 EXCEPT !.socketServer = "null"]
            ELSE s1
  IN [s2 EXCEPT !.nCleanup = @ + 1]

\* clientSocket?.writable / child.stdin?.writable
Writable(s) ==
  IF variant = "socket" THEN s.clientSocket /\ s.sock = "open"
  ELSE procState = "running"

\* child.kill(): a signal is sent only while the process handle is live
kill(s) ==
  IF procState = "running" THEN [s EXCEPT !.killed = TRUE] ELSE s

Write(s, c) == [s EXCEPT !.cmds = Append(@, c)]

Late(s, eff) ==
  IF s.outcome # "pending" THEN [s EXCEPT !.late = @ \cup {eff}] ELSE s

Ret(s, threw, awaits) == [s |-> s, threw |-> threw, awaits |-> awaits]

Begin(s, m) == [s EXCEPT !.begun = @ \cup {m.id}]

\* ------------------------------------------------- response handling
\* the body of one `case` of handleMessages / handleMessage, up to its `break`
\* or, for "event", up to the `await`
handleMessage(s, m) ==
  LET b == [Begin(s, m) EXCEPT !.terminalSeen = @ \/ m.type \in {"complete", "error"}] IN
  CASE m.type = "ready" ->
         LET r == [b EXCEPT !.isReady = TRUE] IN
         IF variant = "socket" /\ ~r.clientSocket THEN Ret(r, FALSE, FALSE)
         ELSE IF Writable(r) THEN Ret(Write(Late(r, "run"), "run"), FALSE, FALSE)
         ELSE Ret(r, variant # "legacy", FALSE)
    [] m.type = "event" ->
         Ret([Late(b, "onEvent") EXCEPT !.inProgress = @ \cup {m.id}], FALSE, TRUE)
    [] m.type = "complete" ->
         LET why == IF m.success THEN "complete" ELSE "completeFail" IN
         IF variant = "socket"
         THEN Ret(resolve(cleanup(Late([b EXCEPT !.isComplete = TRUE], "onComplete")), why),
                  FALSE, FALSE)
         ELSE IF variant = "stdio"
         THEN Ret(resolve(Late(b, "onComplete"), why), FALSE, FALSE)
         ELSE Ret(resolve(b, why), FALSE, FALSE)
    [] m.type = "error" ->
         IF variant = "socket"
         THEN Ret(reject(cleanup(Late([b EXCEPT !.nOnError = @ + 1], "onError")),
                         ErrorOf("response"), "error"),
                  FALSE, FALSE)
         ELSE IF variant = "stdio"
         THEN Ret(reject(Late([b EXCEPT !.nOnError = @ + 1], "onError"),
                         ErrorOf("response"), "error"),
                  FALSE, FALSE)
         ELSE Ret(reject(b, ErrorOf("response"), "error"), FALSE, FALSE)

\* `for (const message of messages)`: runs until the list is exhausted, a case
\* throws (the async function's promise rejects) or `await onEvent` suspends it
RECURSIVE handleMessages(_, _)
handleMessages(s, msgs) ==
  IF msgs = <<>> THEN [s |-> s, tasks |-> {}]
  ELSE LET r == handleMessage(s, Head(msgs)) IN
       IF r.threw THEN [s |-> r.s, tasks |-> {}]
       ELSE IF r.awaits
       THEN [s |-> r.s, tasks |-> {[cur |-> Head(msgs).id, rest |-> Tail(msgs)]}]
       ELSE handleMessages(r.s, Tail(msgs))

\* the `while` loop of runBeartestProcess's stdout handler: handleMessage(message)
\* is called for every frame of the chunk and never awaited
RECURSIVE stdoutOnData(_, _)
stdoutOnData(s, msgs) ==
  IF msgs = <<>> THEN [s |-> s, tasks |-> {}]
  ELSE LET r == handleMessage(s, Head(msgs))
           k == stdoutOnData(r.s, Tail(msgs))
       IN [s |-> k.s,
           tasks |-> k.tasks \cup (IF r.awaits
                                   THEN {[cur |-> Head(msgs).id, rest |-> <<>>]}
                                   ELSE {})]

onData(s, msgs) ==
  IF variant = "legacy" THEN stdoutOnData(s, msgs) ELSE handleMessages(s, msgs)

\* ------------------------------------------------------ other callbacks
\* socket.on("close")
onSocketClose(s) ==
  IF ~s.isComplete THEN resolve(cleanup(s), "socketClose") ELSE s

\* socket.on("error")
onSocketError(s) == reject(cleanup(s), ErrorOf("socket"), "socketError")

\* socketServer.on("error")
onServerError(s) == reject(cleanup(s), ErrorOf("server"), "serverError")

\* child.on("close", code)
onChildClose(s, code) ==
  LET settle(x) == IF code = 0 \/ code = NullCode
                   THEN resolve(x, "exitZero")
                   ELSE reject(x, ExitMessage(stderr, code), "exitNonZero")
  IN IF variant = "socket"
     THEN IF ~s.isComplete THEN settle(cleanup(s)) ELSE s
     ELSE settle(s)

\* child.on("error")
onChildError(s) ==
  IF variant = "socket"
  THEN reject(cleanup(s), ErrorOf("spawn"), "childError")
  ELSE reject(s, ErrorOf("spawn"), "childError")

\* the handler with resolve() reached only on the graceful branch
onCancellationRequested_gracefulResolve(s) ==
  LET c == [s EXCEPT !.pendingAtCancel = (s.outcome = "pending")] IN
  IF c.isReady /\ Writable(c)
  THEN resolve([Write(c, "cancel") EXCEPT !.timer = TRUE], "cancel")
  ELSE IF variant = "socket"
  THEN cleanup(kill(c))
  ELSE kill(c)

\* the handler with child.kill() called before the branch
onCancellationRequested_killFirst(s) ==
  LET c == kill([s EXCEPT !.pendingAtCancel = (s.outcome = "pending")]) IN
  IF c.isReady /\ Writable(c)
  THEN resolve([Write(c, "cancel") EXCEPT !.timer = TRUE], "cancel")
  ELSE IF variant = "socket"
  THEN resolve(cleanup(c), "cancel")
  ELSE resolve(c, "cancel")

\* token.onCancellationRequested
onCancellationRequested(s) ==
  LET c == [s EXCEPT !.pendingAtCancel = (s.outcome = "pending")] IN
  IF c.isReady /\ Writable(c)
  THEN resolve([Write(c, "cancel") EXCEPT !.timer = TRUE], "cancel")
  ELSE IF variant = "socket"
  THEN resolve(cleanup(kill(c)), "cancel")
  ELSE resolve(kill(c), "cancel")

\* the timer callback with the kill left out
onTimeout_noKill(s) ==
  LET t == [s EXCEPT !.timer = FALSE]
  IN IF variant = "socket" THEN cleanup(t) ELSE t

\* the setTimeout callback of the cancellation handler
onTimeout(s) ==
  LET t == [s EXCEPT !.timer = FALSE]
      k == IF ~t.killed THEN kill(t) ELSE t
  IN IF variant = "socket" THEN cleanup(k) ELSE k

\* --------------------------------------------------------------- inputs
Kinds ==
  { [type |-> "ready", success |-> TRUE],
    [type |-> "event", success |-> TRUE],
    [type |-> "complete", success |-> TRUE],
    [type |-> "complete", success |-> FALSE],
    [type |-> "error", success |-> TRUE] }

Chunks == UNION { [1..n -> Kinds] : n \in 1..MaxChunk }

\* the responses of one chunk, numbered in channel order
Numbered(chunk) ==
  [i \in 1..Len(chunk) |->
     [id |-> delivered + i, type |-> chunk[i].type, success |-> chunk[i].success]]

\* data can still arrive on the channel
Readable ==
  IF variant = "socket" THEN st.sock = "open"
  ELSE procState \in {"running", "exited"} /\ ~childCloseFired

\* ---------------------------------------------------------------- state
Init ==
  /\ variant \in Variants
  /\ st = InitSt(variant)
  /\ procState = "none"
  /\ exitCode = NullCode
  /\ stderr = <<>>
  /\ childCloseFired = FALSE
  /\ childErrFired = FALSE
  /\ sockErrFired = FALSE
  /\ serverErrFired = FALSE
  /\ cancelRequested = FALSE
  /\ delivered = 0
  /\ tasks = {}
  /\ cmdCh = Idle
  /\ respCh = Idle
  /\ sync = Idle
  /\ failMsg = Idle
  /\ worker = Idle
  /\ grouping = Idle
  /\ host = Idle
  /\ disc = Idle

\* spawn(): in the socket variant inside the listen callback
Open ==
  /\ procState = "none"
  /\ variant = "socket" => st.socketServer = "starting"
  /\ procState' \in {"running", "failed"}
  /\ st' = IF variant = "socket" THEN [st EXCEPT !.socketServer = "listening"] ELSE st
  /\ UNCHANGED <<variant, exitCode, stderr, childCloseFired, childErrFired, sockErrFired,
                 serverErrFired, cancelRequested, delivered, tasks>>
  /\ UNCHANGED <<cmdCh, respCh, sync, failMsg, worker, grouping, host, disc>>

\* net.createServer's connection callback
Connect ==
  /\ variant = "socket"
  /\ st.socketServer = "listening"
  /\ procState = "running"
  /\ st.sock = "none"
  /\ st' = [st EXCEPT !.clientSocket = TRUE, !.sock = "open"]
  /\ UNCHANGED <<variant, procState, exitCode, stderr, childCloseFired, childErrFired,
                 sockErrFired, serverErrFired, cancelRequested, delivered, tasks>>
  /\ UNCHANGED <<cmdCh, respCh, sync, failMsg, worker, grouping, host, disc>>

\* socket.on("data") / child.stdout.on("data")
DeliverChunk ==
  /\ Readable
  /\ \E chunk \in Chunks :
       /\ delivered + Len(chunk) <= MaxMsgs
       /\ LET r == onData(st, Numbered(chunk)) IN
            /\ st' = r.s
            /\ tasks' = tasks \cup r.tasks
       /\ delivered' = delivered + Len(chunk)
  /\ UNCHANGED <<variant, procState, exitCode, stderr, childCloseFired, childErrFired,
                 sockErrFired, serverErrFired, cancelRequested>>
  /\ UNCHANGED <<cmdCh, respCh, sync, failMsg, worker, grouping, host, disc>>

\* the promise returned by onEvent settles; the suspended handleMessages resumes
EventDone ==
  /\ \E t \in tasks :
       LET r == handleMessages([st EXCEPT !.inProgress = @ \ {t.cur}], t.rest) IN
         /\ st' = r.s
         /\ tasks' = (tasks \ {t}) \cup r.tasks
  /\ UNCHANGED <<variant, procState, exitCode, stderr, childCloseFired, childErrFired,
                 sockErrFired, serverErrFired, cancelRequested, delivered>>
  /\ UNCHANGED <<cmdCh, respCh, sync, failMsg, worker, grouping, host, disc>>

Stderr ==
  /\ procState = "running"
  /\ Len(stderr) < MaxStderr
  /\ stderr' = Append(stderr, "E")
  /\ UNCHANGED <<variant, st, procState, exitCode, childCloseFired, childErrFired,
                 sockErrFired, serverErrFired, cancelRequested, delivered, tasks>>
  /\ UNCHANGED <<cmdCh, respCh, sync, failMsg, worker, grouping, host, disc>>

\* the worker process ends, by itself or by the signal sent to it
ProcExit ==
  /\ procState = "running"
  /\ procState' = "exited"
  /\ exitCode' \in (IF st.killed THEN {NullCode} ELSE {}) \cup {0, 1}
  /\ UNCHANGED <<variant, st, stderr, childCloseFired, childErrFired, sockErrFired,
                 serverErrFired, cancelRequested, delivered, tasks>>
  /\ UNCHANGED <<cmdCh, respCh, sync, failMsg, worker, grouping, host, disc>>

\* the peer's end of the socket is closed when the process is gone
PeerEnd ==
  /\ variant = "socket"
  /\ procState = "exited"
  /\ st.sock = "open"
  /\ st' = [st EXCEPT !.sock = "closing"]
  /\ UNCHANGED <<variant, procState, exitCode, stderr, childCloseFired, childErrFired,
                 sockErrFired, serverErrFired, cancelRequested, delivered, tasks>>
  /\ UNCHANGED <<cmdCh, respCh, sync, failMsg, worker, grouping, host, disc>>

SocketClose ==
  /\ variant = "socket"
  /\ st.sock = "closing"
  /\ st' = onSocketClose([st EXCEPT !.sock = "closed"])
  /\ UNCHANGED <<variant, procState, exitCode, stderr, childCloseFired, childErrFired,
                 sockErrFired, serverErrFired, cancelRequested, delivered, tasks>>
  /\ UNCHANGED <<cmdCh, respCh, sync, failMsg, worker, grouping, host, disc>>

SocketError ==
  /\ variant = "socket"
  /\ st.sock = "open"
  /\ ~sockErrFired
  /\ sockErrFired' = TRUE
  /\ st' = onSocketError([st EXCEPT !.sock = "closing"])
  /\ UNCHANGED <<variant, procState, exitCode, stderr, childCloseFired, childErrFired,
                 serverErrFired, cancelRequested, delivered, tasks>>
  /\ UNCHANGED <<cmdCh, respCh, sync, failMsg, worker, grouping, host, disc>>

ServerError ==
  /\ variant = "socket"
  /\ st.socketServer # "null"
  /\ ~serverErrFired
  /\ serverErrFired' = TRUE
  /\ st' = onServerError(st)
  /\ UNCHANGED <<variant, procState, exitCode, stderr, childCloseFired, childErrFired,
                 sockErrFired, cancelRequested, delivered, tasks>>
  /\ UNCHANGED <<cmdCh, respCh, sync, failMsg, worker, grouping, host, disc>>

ChildClose ==
  /\ procState = "exited"
  /\ ~childCloseFired
  /\ childCloseFired' = TRUE
  /\ st' = onChildClose(st, exitCode)
  /\ UNCHANGED <<variant, procState, exitCode, stderr, childErrFired, sockErrFired,
                 serverErrFired, cancelRequested, delivered, tasks>>
  /\ UNCHANGED <<cmdCh, respCh, sync, failMsg, worker, grouping, host, disc>>

ChildError ==
  /\ procState = "failed"
  /\ ~childErrFired
  /\ childErrFired' = TRUE
  /\ st' = onChildError(st)
  /\ UNCHANGED <<variant, procState, exitCode, stderr, childCloseFired, sockErrFired,
                 serverErrFired, cancelRequested, delivered, tasks>>
  /\ UNCHANGED <<cmdCh, respCh, sync, failMsg, worker, grouping, host, disc>>

\* the token fires; its listener is registered once the child has been spawned
Cancel ==
  /\ procState # "none"
  /\ ~cancelRequested
  /\ cancelRequested' = TRUE
  /\ st' = onCancellationRequested(st)
  /\ UNCHANGED <<variant, procState, exitCode, stderr, childCloseFired, childErrFired,
                 sockErrFired, serverErrFired, delivered, tasks>>
  /\ UNCHANGED <<cmdCh, respCh, sync, failMsg, worker, grouping, host, disc>>

TimerFire ==
  /\ st.timer
  /\ st' = onTimeout(st)
  /\ UNCHANGED <<variant, procState, exitCode, stderr, childCloseFired, childErrFired,
                 sockErrFired, serverErrFired, cancelRequested, delivered, tasks>>
  /\ UNCHANGED <<cmdCh, respCh, sync, failMsg, worker, grouping, host, disc>>

Next ==
  \/ Open
  \/ Connect
  \/ DeliverChunk
  \/ EventDone
  \/ Stderr
  \/ ProcExit
  \/ PeerEnd
  \/ SocketClose
  \/ SocketError
  \/ ServerError
  \/ ChildClose
  \/ ChildError
  \/ Cancel
  \/ TimerFire

Spec == Init /\ [][Next]_vars

\* the grace timer fires, and a process that was sent a signal ends
LiveSpec ==
  /\ Spec
  /\ WF_vars(TimerFire)
  /\ WF_vars(ProcExit /\ st.killed)

\* ==================================================================== claims
RunCount(s) == Cardinality({i \in DOMAIN s.cmds : s.cmds[i] = "run"})
CancelCount(s) == Cardinality({i \in DOMAIN s.cmds : s.cmds[i] = "cancel"})

\* C1: responses are applied strictly in channel order: while the application
\* of response i is still in progress, no response after i has begun to be
\* applied, also when the later response arrived in another chunk.
C1_AppliedInChannelOrder ==
  \A i \in st.inProgress : \A j \in st.begun : j <= i

\* C2: Terminated is absorbing: a response handled after the promise has
\* settled invokes no onEvent, onComplete or onError handler and causes no
\* command to be sent.
C2_TerminatedAbsorbing == st.late = {}

\* C3: in the socket run, whatever the interleaving of the finalizing
\* callbacks, cleanup() is invoked exactly once: never twice, and once by the
\* time the run has settled and no grace timer is pending.
C3_TeardownExactlyOnce ==
  variant = "socket" =>
    /\ st.nCleanup <= 1
    /\ (st.outcome # "pending" /\ ~st.timer) => st.nCleanup = 1

\* C4: once the run has ended, the channel is closed and the worker process
\* is not left alive without a kill signal sent or a kill timer pending.
C4_SessionDestroyed ==
  st.outcome # "pending" =>
    /\ variant = "socket" => st.sock # "open"
    /\ procState = "running" => (st.killed \/ st.timer)

\* C5: a run that is Running (ready received, promise pending) and is settled
\* by a `complete` response with success=false ends rejected.
C5_CompleteFailureFails ==
  [][ (st.isReady /\ st.outcome = "pending" /\ st'.cause = "completeFail")
        => st'.outcome = "rejected" ]_vars

\* C6: the process exited with a non-zero code, no terminal response was
\* handled, cancellation was not requested and no channel, server or spawn
\* error occurred: once the process-close callback has run, the run is rejected
\* with the diagnostic-stream text, or "Runner exited with code N" when empty.
C6_NonZeroExitFails ==
  ( /\ childCloseFired
    /\ exitCode \notin {0, NullCode}
    /\ ~cancelRequested
    /\ ~st.terminalSeen
    /\ ~sockErrFired /\ ~serverErrFired /\ ~childErrFired )
  => ( st.outcome = "rejected" /\ st.reason = ExitMessage(stderr, exitCode) )

\* C7: when cancellation arrives while the promise is pending, the run is
\* resolved, and stays resolved whatever callback runs afterwards.
C7_CancelResolves == st.pendingAtCancel => st.outcome = "resolved"

\* cancelled while pending, then the process closed with a non-zero code
C7_Witness ==
  /\ st.pendingAtCancel
  /\ childCloseFired
  /\ exitCode = 1
  /\ st.outcome = "resolved"

\* C8: the cancellation policy.  Ready and writable: one `cancel` command is
\* written, the timer is started and no signal is sent until it fires; when
\* it fires the process is signalled exactly if it is still running.
\* Otherwise: no command is written, no timer is started and a running
\* process is signalled at once.  No `cancel` is written at any other time.
C8_CancelPolicy ==
  /\ [][ /\ (~cancelRequested /\ cancelRequested') =>
              IF st.isReady /\ Writable(st)
              THEN /\ st'.cmds = Append(st.cmds, "cancel")
                   /\ st'.timer
                   /\ st'.killed = st.killed
              ELSE /\ st'.cmds = st.cmds
                   /\ ~st'.timer
                   /\ procState = "running" => st'.killed
         /\ (st.timer /\ ~st'.timer) =>
              /\ st'.killed <=> procState = "running"
              /\ st'.cmds = st.cmds
         /\ CancelCount(st') # CancelCount(st) => (~cancelRequested /\ cancelRequested')
     ]_vars
  /\ [](st.timer => ~st.killed)
  /\ [](CancelCount(st) <= 1)

\* the graceful path was taken and the timer's kill reached a live process
C8_Witness ==
  /\ cancelRequested
  /\ CancelCount(st) = 1
  /\ ~st.timer
  /\ st.killed

\* C9: after cancellation the run is eventually settled (resolved, when it was
\* pending as cancellation arrived) and the worker process is not running.
C9_CancelTerminates ==
  cancelRequested ~>
    ( /\ st.outcome # "pending"
      /\ st.pendingAtCancel => st.outcome = "resolved"
      /\ procState # "running" )

\* cancelled while pending, the process ended by the signal
C9_Witness ==
  /\ cancelRequested
  /\ st.pendingAtCancel
  /\ st.outcome = "resolved"
  /\ procState = "exited"
  /\ exitCode = NullCode

\* C10: once cancellation has been requested no `run` command is written.
C10_NoRunAfterCancel ==
  [][ cancelRequested => RunCount(st') = RunCount(st) ]_vars

\* C11: no `run` command is written before a `ready` response has been
\* received, and a session writes at most one `run` command, whatever
\* further responses (a repeated `ready` included) the worker sends.
C11_OneRunAfterReady ==
  /\ RunCount(st) <= 1
  /\ (RunCount(st) > 0 => st.isReady)

\* ============================================================ text and JSON
\* Text is a sequence of characters, a chunk on a pipe or socket a sequence
\* of bytes.  Every character but Wide is one byte; Wide stands for a
\* character outside ASCII, two bytes in UTF-8.  Object keys and the
\* punctuation around them are abbreviated to one character each: "r", "e",
\* "c", "x" for the `type` of a response, "R", "C", "S" for that of a command,
\* "O" for the key `only`.

NL == "\n"
BS == "\\"
QT == "\""
Wide == "W"
Lead == "w1"
Trail == "w2"

\* the wire encoding of a string (UTF-8)
RECURSIVE utf8(_)
utf8(t) ==
  IF t = <<>> THEN <<>>
  ELSE (IF Head(t) = Wide THEN <<Lead, Trail>> ELSE <<Head(t)>>) \o utf8(Tail(t))

\* Buffer.prototype.toString(): every byte that is not part of a complete
\* character of this buffer decodes to U+FFFD
RECURSIVE toString(_)
toString(b) ==
  IF b = <<>> THEN <<>>
  ELSE IF Head(b) = Lead /\ Len(b) >= 2 /\ b[2] = Trail
  THEN <<Wide>> \o toString(Tail(Tail(b)))
  ELSE IF Head(b) \in {Lead, Trail}
  THEN <<"?">> \o toString(Tail(b))
  ELSE <<Head(b)>> \o toString(Tail(b))

decoderWrite_perChunk(pending, b) == [text |-> toString(pending \o b), pending |-> <<>>]

\* setEncoding("utf8"): the stream's decoder keeps the bytes of an incomplete
\* trailing character for the next chunk
decoderWrite(pending, b) ==
  LET all == pending \o b IN
  IF all # <<>> /\ all[Len(all)] = Lead
  THEN [text |-> toString(SubSeq(all, 1, Len(all) - 1)), pending |-> <<Lead>>]
  ELSE [text |-> toString(all), pending |-> <<>>]

\* String.prototype.indexOf(pattern, from), 1-based; 0 when there is none
indexOf(t, pat, from) ==
  LET hits == { i \in from..(Len(t) - Len(pat) + 1) : SubSeq(t, i, i + Len(pat) - 1) = pat }
  IN IF hits = {} THEN 0 ELSE CHOOSE i \in hits : \A j \in hits : i <= j

startsWith(t, pat) == Len(t) >= Len(pat) /\ SubSeq(t, 1, Len(pat)) = pat

\* line.trim() is the empty string
IsBlank(t) == \A i \in DOMAIN t : t[i] \in {NL, " "}

\* JSON.stringify of a string: quotes around it, the quote, the backslash and
\* the control characters escaped
RECURSIVE escape(_)
escape(t) ==
  IF t = <<>> THEN <<>>
  ELSE LET c == Head(t) IN
       (IF c = NL THEN <<BS, "n">> ELSE IF c \in {BS, QT} THEN <<BS, c>> ELSE <<c>>)
         \o escape(Tail(t))

quote(t) == <<QT>> \o escape(t) \o <<QT>>

RECURSIVE elements(_)
elements(l) ==
  IF l = <<>> THEN <<>>
  ELSE quote(Head(l)) \o (IF Len(l) > 1 THEN <<",">> \o elements(Tail(l)) ELSE <<>>)

array(l) == <<"[">> \o elements(l) \o <<"]">>

\* JSON.stringify of a command or a response
stringify(v) ==
  CASE v.type = "ready" -> <<"{", "r", "}">>
    [] v.type = "event" -> <<"{", "e">> \o quote(v.data) \o <<"}">>
    [] v.type = "complete" -> <<"{", "c", IF v.success THEN "t" ELSE "f", "}">>
    [] v.type = "error" -> <<"{", "x">> \o quote(v.message) \o <<"}">>
    [] v.type = "run" ->
         <<"{", "R">> \o array(v.files)
           \o (IF "only" \in DOMAIN v THEN <<"O">> \o array(v.only) ELSE <<>>)
           \o <<"}">>
    [] v.type = "cancel" -> <<"{", "C", "}">>
    [] v.type = "shutdown" -> <<"{", "S", "}">>

\* JSON.parse
NoParse == [ok |-> FALSE, val |-> <<>>, next |-> 0]
SyntaxError == [type |-> "SyntaxError"]

\* a string literal whose opening quote is before position i
RECURSIVE readString(_, _, _)
readString(t, i, acc) ==
  IF i > Len(t) THEN NoParse
  ELSE IF t[i] = QT THEN [ok |-> TRUE, val |-> acc, next |-> i + 1]
  ELSE IF t[i] = BS
  THEN IF i + 1 > Len(t) THEN NoParse
       ELSE IF t[i + 1] = "n" THEN readString(t, i + 2, Append(acc, NL))
       ELSE IF t[i + 1] \in {BS, QT} THEN readString(t, i + 2, Append(acc, t[i + 1]))
       ELSE NoParse
  ELSE IF t[i] = NL THEN NoParse
  ELSE readString(t, i + 1, Append(acc, t[i]))

\* the elements of an array, position i being that of an opening quote
RECURSIVE readElements(_, _, _)
readElements(t, i, acc) ==
  IF i > Len(t) \/ t[i] # QT THEN NoParse
  ELSE LET r == readString(t, i + 1, <<>>) IN
       IF ~r.ok \/ r.next > Len(t) THEN NoParse
       ELSE IF t[r.next] = "]" THEN [ok |-> TRUE, val |-> Append(acc, r.val), next |-> r.next + 1]
       ELSE IF t[r.next] = "," THEN readElements(t, r.next + 1, Append(acc, r.val))
       ELSE NoParse

\* an array of strings whose bracket is at position i
readArray(t, i) ==
  IF i + 1 > Len(t) \/ t[i] # "[" THEN NoParse
  ELSE IF t[i + 1] = "]" THEN [ok |-> TRUE, val |-> <<>>, next |-> i + 2]
  ELSE readElements(t, i + 1, <<>>)

parseRun(t) ==
  LET f == readArray(t, 3) IN
  IF ~f.ok \/ f.next > Len(t) THEN SyntaxError
  ELSE IF f.next = Len(t) THEN [type |-> "run", files |-> f.val]
  ELSE IF t[f.next] # "O" THEN SyntaxError
  ELSE LET o == readArray(t, f.next + 1) IN
       IF o.ok /\ o.next = Len(t)
       THEN [type |-> "run", files |-> f.val, only |-> o.val]
       ELSE SyntaxError

parse(t) ==
  IF Len(t) < 3 \/ t[1] # "{" \/ t[Len(t)] # "}" THEN SyntaxError
  ELSE CASE t[2] = "r" /\ Len(t) = 3 -> [type |-> "ready"]
         [] t[2] = "C" /\ Len(t) = 3 -> [type |-> "cancel"]
         [] t[2] = "S" /\ Len(t) = 3 -> [type |-> "shutdown"]
         [] t[2] = "c" /\ Len(t) = 4 /\ t[3] \in {"t", "f"} ->
              [type |-> "complete", success |-> (t[3] = "t")]
         [] t[2] \in {"e", "x"} /\ t[3] = QT ->
              LET r == readString(t, 4, <<>>) IN
              IF r.ok /\ r.next = Len(t)
              THEN IF t[2] = "e" THEN [type |-> "event", data |-> r.val]
                   ELSE [type |-> "error", message |-> r.val]
              ELSE SyntaxError
         [] t[2] = "R" -> parseRun(t)
         [] OTHER -> SyntaxError

\* ========================================================= command channel
\* A run request is turned into a `run` command, the command is written to
\* the worker's input, and the worker's receiver reassembles and dispatches it.

\* the longest path of a requested item below its file
MaxPath == 2
\* the most items a request includes
MaxInclude == 2

\* a requested item: its testItemData type and the fullName of the items from
\* below its file down to itself; a folder item of the discovery has no
\* testItemData and no named ancestor
Items ==
  {[type |-> "file", path |-> <<>>], [type |-> "undefined", path |-> <<>>]}
    \cup { [type |-> "test", path |-> p] :
             p \in UNION { [1..n -> { <<>>, <<QT, BS, "n">>, <<Wide, NL>> }] : n \in 1..MaxPath } }

\* vscode.TestRunRequest: `include` is undefined or an array of items
Requests ==
  {[profile |-> "run"]}
    \cup { [profile |-> "run", include |-> inc] :
             inc \in UNION { [1..n -> Items] : n \in 0..MaxInclude } }

\* a value of type string[] | undefined
Undefined == [defined |-> FALSE]
Some(v) == [defined |-> TRUE, value |-> v]

\* the names from the file down to the item, falsy (empty) names left out
buildTestPath(item) == SelectSeq(item.path, LAMBDA n : n # <<>>)

buildOnlyFilter(request) ==
  IF "include" \notin DOMAIN request \/ Len(request.include) = 0 THEN Undefined
  ELSE LET nested == { i \in DOMAIN request.include : request.include[i].type # "file" } IN
       IF nested = {} THEN Undefined
       ELSE Some(buildTestPath(request.include[CHOOSE i \in nested : \A j \in nested : i <= j]))

buildRunCommand_spreadAlways(files, only) ==
  IF only.defined
  THEN [type |-> "run", files |-> files, only |-> only.value]
  ELSE [type |-> "run", files |-> files]

buildRunCommand(files, only) ==
  IF only.defined /\ Len(only.value) > 0
  THEN [type |-> "run", files |-> files, only |-> only.value]
  ELSE [type |-> "run", files |-> files]

buildCancelCommand == [type |-> "cancel"]

\* what sendCommand writes: the bytes of JSON.stringify(command) + "\n"
sendCommand(command) == utf8(stringify(command) \o <<NL>>)

\* the worker's receiver: the loop over the complete lines of the buffer
RECURSIVE handleData(_, _)
handleData(buffer, out) ==
  LET newlineIndex == indexOf(buffer, <<NL>>, 1) IN
  IF newlineIndex = 0 THEN [buffer |-> buffer, out |-> out]
  ELSE LET line == SubSeq(buffer, 1, newlineIndex - 1)
           rest == SubSeq(buffer, newlineIndex + 1, Len(buffer))
       IN IF IsBlank(line) THEN handleData(rest, out)
          ELSE handleData(rest, Append(out, parse(line)))

\* the worker's stream decoder followed by its 'data' handler; a line that
\* does not parse is answered with an `error` response and dispatches nothing
workerOnData(c, chunk) ==
  LET d == decoderWrite(c.pending, chunk)
      r == handleData(c.buffer \o d.text, <<>>)
  IN [c EXCEPT !.pending = d.pending,
               !.carried = @ \/ d.pending # <<>>,
               !.buffer = r.buffer,
               !.dispatched = @ \o SelectSeq(r.out, LAMBDA v : v # SyntaxError),
               !.errors = @ + Len(SelectSeq(r.out, LAMBDA v : v = SyntaxError))]

CmdInit ==
  /\ variant = "socket"
  /\ st = InitSt("socket")
  /\ procState = "none"
  /\ exitCode = NullCode
  /\ stderr = <<>>
  /\ childCloseFired = FALSE
  /\ childErrFired = FALSE
  /\ sockErrFired = FALSE
  /\ serverErrFired = FALSE
  /\ cancelRequested = FALSE
  /\ delivered = 0
  /\ tasks = {}
  /\ respCh = Idle
  /\ sync = Idle
  /\ failMsg = Idle
  /\ worker = Idle
  /\ grouping = Idle
  /\ host = Idle
  /\ disc = Idle
  /\ \E r \in Requests, f \in { << <<"n">> >>, << <<Wide>>, <<"n">> >> } :
       cmdCh = [phase |-> "requested", request |-> r, files |-> f]

\* runTests: the filter of the request, then the `run` command of the session
BuildRun ==
  /\ cmdCh.phase = "requested"
  /\ LET only == buildOnlyFilter(cmdCh.request) IN
       cmdCh' = [phase |-> "built", request |-> cmdCh.request, files |-> cmdCh.files,
                 only |-> only, command |-> buildRunCommand(cmdCh.files, only)]
  /\ UNCHANGED <<sessionVars, respCh, sync, failMsg, worker, grouping, host, disc>>

\* sendCommand(command) for the `run` command, or for a `cancel` or `shutdown`
SendCommand ==
  /\ \E c \in IF cmdCh.phase = "built" THEN {cmdCh.command}
              ELSE IF cmdCh.phase = "requested"
              THEN {buildCancelCommand, [type |-> "shutdown"]}
              ELSE {} :
       cmdCh' = [phase |-> "sent", command |-> c, wire |-> sendCommand(c),
                 pending |-> <<>>, buffer |-> <<>>, dispatched |-> <<>>,
                 errors |-> 0, chunks |-> 0, carried |-> FALSE]
  /\ UNCHANGED <<sessionVars, respCh, sync, failMsg, worker, grouping, host, disc>>

\* a 'data' event of the worker's input: the next bytes, cut anywhere
WorkerData ==
  /\ cmdCh.phase = "sent"
  /\ \E k \in 1..Len(cmdCh.wire) :
       cmdCh' = [workerOnData(cmdCh, SubSeq(cmdCh.wire, 1, k)) EXCEPT
                   !.wire = SubSeq(cmdCh.wire, k + 1, Len(cmdCh.wire)),
                   !.chunks = @ + 1]
  /\ UNCHANGED <<sessionVars, respCh, sync, failMsg, worker, grouping, host, disc>>

CmdSpec == CmdInit /\ [][BuildRun \/ SendCommand \/ WorkerData]_vars

\* C12: the `run` command carries an `only` field exactly when the filter of
\* the request is a non-empty sequence of names, and the field then equals
\* that sequence; with no filter or an empty one (a request that includes
\* nothing or only files among them) the command has no `only` field.
C12_OnlyIffNonEmptyFilter ==
  cmdCh.phase = "built" =>
    /\ ("only" \in DOMAIN cmdCh.command)
         <=> (cmdCh.only.defined /\ cmdCh.only.value # <<>>)
    /\ ("only" \in DOMAIN cmdCh.command) => cmdCh.command.only = cmdCh.only.value
    /\ ( \/ "include" \notin DOMAIN cmdCh.request
         \/ \A i \in DOMAIN cmdCh.request.include : cmdCh.request.include[i].type = "file" )
         => "only" \notin DOMAIN cmdCh.command

\* a nested item whose names are all empty: the filter is the empty sequence
C12_Witness ==
  /\ cmdCh.phase = "built"
  /\ cmdCh.only = Some(<<>>)
  /\ "only" \notin DOMAIN cmdCh.command

MaxSegs == 2

PROTOCOL_START == <<"_", "B">>
PROTOCOL_END == <<"_", "E">>

Responses ==
  { [type |-> "ready"], [type |-> "complete", success |-> TRUE] }
    \cup { [type |-> "event", data |-> d] : d \in { <<"n">>, <<Wide>>, <<"_", "E">>, <<NL, QT>> } }

Segments(scheme) ==
  { [kind |-> "frame", response |-> r] : r \in Responses }
    \cup { [kind |-> "garbage", body |-> g] : g \in { <<"{", "r">>, <<"n">> } }
    \cup (IF scheme = "socket" THEN {}
          ELSE { [kind |-> "raw", text |-> t] : t \in { <<"n", NL>>, <<Wide, NL>>, <<"n">> } })

\* the worker's senders: send() of runner.js, safeSend() of the stdio worker
frame(scheme, body) ==
  IF scheme = "socket" THEN body \o <<NL>>
  ELSE PROTOCOL_START \o body \o PROTOCOL_END \o <<NL>>

segText(scheme, seg) ==
  CASE seg.kind = "frame" -> frame(scheme, stringify(seg.response))
    [] seg.kind = "garbage" -> frame(scheme, seg.body)
    [] seg.kind = "raw" -> seg.text

RECURSIVE streamText(_, _)
streamText(scheme, segs) ==
  IF segs = <<>> THEN <<>>
  ELSE segText(scheme, Head(segs)) \o streamText(scheme, Tail(segs))

\* parseSocketMessages: the complete lines of the buffer, those that parse
RECURSIVE parseSocketMessages(_, _)
parseSocketMessages(currentBuffer, messages) ==
  LET newlineIndex == indexOf(currentBuffer, <<NL>>, 1) IN
  IF newlineIndex = 0 THEN [messages |-> messages, remainingBuffer |-> currentBuffer]
  ELSE LET line == SubSeq(currentBuffer, 1, newlineIndex - 1)
           rest == SubSeq(currentBuffer, newlineIndex + 1, Len(currentBuffer))
           m == parse(line)
       IN IF IsBlank(line) \/ m = SyntaxError
          THEN parseSocketMessages(rest, messages)
          ELSE parseSocketMessages(rest, Append(messages, m))

\* parseProtocolMessages: from the first start marker to the first end marker
\* at or after it; the buffer continues after that end marker
RECURSIVE parseProtocolMessages(_, _)
parseProtocolMessages(currentBuffer, messages) ==
  LET messageStart == indexOf(currentBuffer, PROTOCOL_START, 1)
      messageEnd == IF messageStart = 0 THEN 0
                    ELSE indexOf(currentBuffer, PROTOCOL_END, messageStart)
  IN
  IF messageStart = 0 \/ messageEnd = 0
  THEN [messages |-> messages, remainingBuffer |-> currentBuffer]
  ELSE LET messageJson == SubSeq(currentBuffer, messageStart + Len(PROTOCOL_START),
                                 messageEnd - 1)
           rest == SubSeq(currentBuffer, messageEnd + Len(PROTOCOL_END),
                          Len(currentBuffer))
           m == parse(messageJson)
       IN IF m = SyntaxError
          THEN parseProtocolMessages(rest, messages)
          ELSE parseProtocolMessages(rest, Append(messages, m))

\* the position of the last newline of the text, 0 when it has none
lastNewline(t) ==
  LET nls == { i \in DOMAIN t : t[i] = NL } IN
  IF nls = {} THEN 0 ELSE CHOOSE i \in nls : \A j \in nls : j <= i

\* extractOutput: the complete lines of a buffer that does not begin with the
\* start marker; the last, incomplete line stays in the buffer
extractOutput(buffer) ==
  IF buffer = <<>> \/ startsWith(buffer, PROTOCOL_START)
  THEN [output |-> <<>>, remainingBuffer |-> buffer]
  ELSE LET k == lastNewline(buffer)
           joined == SubSeq(buffer, 1, k - 1)
       IN [output |-> IF joined = <<>> THEN <<>> ELSE joined \o <<NL>>,
           remainingBuffer |-> SubSeq(buffer, k + 1, Len(buffer))]

\* socket.on("data") of the socket run
socketOnData(c, chunk) ==
  LET d == decoderWrite(c.pending, chunk)
      r == parseSocketMessages(c.buffer \o d.text, <<>>)
  IN [c EXCEPT !.pending = d.pending,
               !.buffer = r.remainingBuffer,
               !.decoded = @ \o r.messages]

\* child.stdout.on("data") of the stdio run: the chunk itself is forwarded
\* when extractOutput finds output.  The handlers of the responses complete
\* within the `await` (onEvent does no I/O), before the next 'data' event.
stdioOnData(c, chunk) ==
  LET r == parseProtocolMessages(c.buffer \o toString(chunk), <<>>)
      e == extractOutput(r.remainingBuffer)
  IN [c EXCEPT !.buffer = e.remainingBuffer,
               !.decoded = @ \o r.messages,
               !.sink = IF e.output # <<>> THEN @ \o toString(chunk) ELSE @]

\* child.stdout.on("data") of runBeartestProcess: the extracted lines are
\* appended to the run's output
legacyOnData(c, chunk) ==
  LET r == parseProtocolMessages(c.buffer \o toString(chunk), <<>>)
      e == extractOutput(r.remainingBuffer)
  IN [c EXCEPT !.buffer = e.remainingBuffer,
               !.decoded = @ \o r.messages,
               !.sink = @ \o e.output]

RespInit ==
  /\ variant = "socket"
  /\ st = InitSt("socket")
  /\ procState = "none"
  /\ exitCode = NullCode
  /\ stderr = <<>>
  /\ childCloseFired = FALSE
  /\ childErrFired = FALSE
  /\ sockErrFired = FALSE
  /\ serverErrFired = FALSE
  /\ cancelRequested = FALSE
  /\ delivered = 0
  /\ tasks = {}
  /\ cmdCh = Idle
  /\ sync = Idle
  /\ failMsg = Idle
  /\ worker = Idle
  /\ grouping = Idle
  /\ host = Idle
  /\ disc = Idle
  /\ \E scheme \in Variants :
       \E segs \in UNION { [1..n -> Segments(scheme)] : n \in 1..MaxSegs } :
         respCh = [phase |-> "streaming", scheme |-> scheme, segs |-> segs,
                   wire |-> utf8(streamText(scheme, segs)), received |-> 0,
                   pending |-> <<>>, buffer |-> <<>>, decoded |-> <<>>,
                   sink |-> <<>>, chunks |-> 0]

\* a 'data' event of the parent: the next bytes of the stream, cut anywhere
ParentData ==
  /\ respCh.phase = "streaming"
  /\ \E k \in 1..Len(respCh.wire) :
       LET chunk == SubSeq(respCh.wire, 1, k)
           c == CASE respCh.scheme = "socket" -> socketOnData(respCh, chunk)
                  [] respCh.scheme = "stdio" -> stdioOnData(respCh, chunk)
                  [] respCh.scheme = "legacy" -> legacyOnData(respCh, chunk)
       IN respCh' = [c EXCEPT !.wire = SubSeq(respCh.wire, k + 1, Len(respCh.wire)),
                              !.received = @ + k,
                              !.chunks = @ + 1]
  /\ UNCHANGED <<sessionVars, cmdCh, sync, failMsg, worker, grouping, host, disc>>

RespSpec == RespInit /\ [][ParentData]_vars

\* the number of bytes after which the frame of a segment is complete: with
\* its newline in the line scheme, with its end marker in the delimiter scheme
frameEnd(scheme, seg) ==
  Len(utf8(segText(scheme, seg))) - (IF scheme = "socket" THEN 0 ELSE 1)

\* the responses of the stream whose frame is complete within the first n
\* bytes, offset being the position of the first segment
RECURSIVE completeFrames(_, _, _, _)
completeFrames(scheme, segs, offset, n) ==
  IF segs = <<>> THEN <<>>
  ELSE LET seg == Head(segs) IN
       (IF seg.kind = "frame" /\ offset + frameEnd(scheme, seg) <= n
        THEN <<seg.response>> ELSE <<>>)
         \o completeFrames(scheme, Tail(segs),
                           offset + Len(utf8(segText(scheme, seg))), n)

\* the raw output of the stream: its text with the frames taken out
RECURSIVE rawText(_)
rawText(segs) ==
  IF segs = <<>> THEN <<>>
  ELSE (IF Head(segs).kind = "raw" THEN Head(segs).text ELSE <<>>) \o rawText(Tail(segs))

\* C13: in both framing schemes, for a stream of well-formed frames cut into
\* chunks anywhere, the responses decoded after each chunk are exactly, in
\* order and once each, those whose complete frame has been received.
C13_DecodedAreCompleteFrames ==
  (respCh.phase = "streaming"
     /\ \A i \in DOMAIN respCh.segs : respCh.segs[i].kind = "frame")
    => respCh.decoded = completeFrames(respCh.scheme, respCh.segs, 0, respCh.received)

\* C15: in the delimiter scheme the text forwarded to the output sink is the
\* stream with the frames removed: once the whole stream has been received,
\* the sink holds the raw output, all of it, once, and nothing of a frame.
C15_OutputIsStreamMinusFrames ==
  (respCh.phase = "streaming" /\ respCh.scheme # "socket" /\ respCh.wire = <<>>)
    => respCh.sink = rawText(respCh.segs)

\* C16: a frame whose body does not decode is dropped: nothing is decoded for
\* it, and the well-formed frames of the stream, those after it included, are
\* still decoded, in order and once each, as soon as they are complete.
C16_UndecodableFrameDropped ==
  (respCh.phase = "streaming"
     /\ (\E i \in DOMAIN respCh.segs : respCh.segs[i].kind = "garbage")
     /\ (\A j \in DOMAIN respCh.segs : respCh.segs[j].kind # "raw"))
    => respCh.decoded = completeFrames(respCh.scheme, respCh.segs, 0, respCh.received)

\* ==================================================== test tree synchronizer
\* The events of a run are applied to the test tree: a `start` creates or
\* finds the node of its (parent, nesting, name) key, a `pass` or `fail`
\* reports a status.  testItemMap lives as long as the TestRunner, suiteStack
\* as long as one run.  handleBeartestEvent of the events module ("handlers")
\* and the methods of the TestRunner class of testRunner.ts ("legacy") are
\* both modelled.  Two fields follow what the code does not keep: `file` is the
\* name of the last `start` at nesting 0 of the run, `detached` the items whose
\* file item the discovery removed from the tree.

\* the deepest nesting level of an event
MaxNesting == 1
\* the most events applied over the runs of one behaviour
MaxEvents == 4
\* the most runs of one TestRunner
MaxRuns == 2

\* no item: undefined
Absent == <<>>

\* file items of controller.items, by filePath, and the names events carry
Files == { <<"f">>, <<"h">> }
FileNames == Files \cup { <<"g">> }
TestNames == { <<"a">>, <<"b">> }

Digit(n) == <<"0", "1", "2", "3", "4", "5", "6", "7", "8", "9">>[n + 1]

\* `${parent.id}::${nesting}::${name}`
createTestId(parent, nesting, name) ==
  parent \o <<":", ":">> \o <<Digit(nesting)>> \o <<":", ":">> \o name

findFileTestItem(name) == IF name \in Files THEN name ELSE Absent

\* one more call counted for key k
Count(f, k) == IF k \in DOMAIN f THEN [f EXCEPT ![k] = @ + 1] ELSE f @@ (k :> 1)

\* run.started / run.passed / run.skipped / run.failed on the current run
Report(s, kind, item, duration) ==
  [s EXCEPT !.last.reports = @ \cup {[kind |-> kind, item |-> item, duration |-> duration]}]

Started(s, nesting, item) ==
  [Report(s, "started", item, 0) EXCEPT !.started = @ \cup {<<nesting, item>>}]

createOrGetTestItem_noLookup(s, parent, name, nesting, testType) ==
  LET testId == createTestId(parent, nesting, name) IN
  [s EXCEPT !.creations = Count(@, testId),
            !.data = (testId :> [type |-> testType, fullName |-> name,
                                    nestingLevel |-> nesting]) @@ @,
            !.adds = Count(@, <<parent, testId>>),
            !.testItemMap = @ \cup {testId},
            !.last.resolved = testId]

\* the item of the key: the one testItemMap holds, else a new item, recorded
\* with its data, added to the parent's children and to testItemMap
createOrGetTestItem(s, parent, name, nesting, testType) ==
  LET testId == createTestId(parent, nesting, name) IN
  IF testId \in s.testItemMap
  THEN [s EXCEPT !.last.resolved = testId, !.last.existed = TRUE]
  ELSE [s EXCEPT !.creations = Count(@, testId),
                 !.data = (testId :> [type |-> testType, fullName |-> name,
                                    nestingLevel |-> nesting]) @@ @,
                 !.adds = Count(@, <<parent, testId>>),
                 !.testItemMap = @ \cup {testId},
                 !.last.resolved = testId]

handleTestStart_parentSlot(s, e) ==
  IF e.nesting = 0
  THEN LET fileItem == findFileTestItem(e.name) IN
       IF fileItem # Absent
       THEN Started([s EXCEPT !.suiteStack[0] = fileItem, !.last.resolved = fileItem],
                    0, fileItem)
       ELSE s
  ELSE LET parent == s.suiteStack[e.nesting - 1] IN
       IF parent = Absent THEN s
       ELSE LET c == createOrGetTestItem(s, parent, e.name, e.nesting,
                                         IF e.testType = "suite" THEN "suite" ELSE "test")
                testItem == c.last.resolved
                k == IF e.testType = "suite"
                     THEN [c EXCEPT !.suiteStack[e.nesting - 1] = testItem]
                     ELSE c
            IN Started(k, e.nesting, testItem)

\* handleTestStart that attaches an orphan to the file started last
handleTestStart_orphanUnderFile(s, e) ==
  IF e.nesting = 0
  THEN LET fileItem == findFileTestItem(e.name) IN
       IF fileItem # Absent
       THEN Started([s EXCEPT !.suiteStack[0] = fileItem, !.last.resolved = fileItem],
                    0, fileItem)
       ELSE s
  ELSE LET parent == IF s.suiteStack[e.nesting - 1] = Absent
                     THEN <<"f">> ELSE s.suiteStack[e.nesting - 1]
           c == createOrGetTestItem(s, parent, e.name, e.nesting,
                                    IF e.testType = "suite" THEN "suite" ELSE "test")
           testItem == c.last.resolved
           k == IF e.testType = "suite"
                THEN [c EXCEPT !.suiteStack[e.nesting] = testItem]
                ELSE c
       IN Started(k, e.nesting, testItem)

\* handleTestStart, the same in both implementations
handleTestStart(s, e) ==
  IF e.nesting = 0
  THEN LET fileItem == findFileTestItem(e.name) IN
       IF fileItem # Absent
       THEN Started([s EXCEPT !.suiteStack[0] = fileItem, !.last.resolved = fileItem],
                    0, fileItem)
       ELSE s
  ELSE LET parent == s.suiteStack[e.nesting - 1] IN
       IF parent = Absent THEN s
       ELSE LET c == createOrGetTestItem(s, parent, e.name, e.nesting,
                                         IF e.testType = "suite" THEN "suite" ELSE "test")
                testItem == c.last.resolved
                k == IF e.testType = "suite"
                     THEN [c EXCEPT !.suiteStack[e.nesting] = testItem]
                     ELSE c
            IN Started(k, e.nesting, testItem)

\* the item a pass or fail event is resolved against; threw: the TypeError of
\* `parent.id` in createTestId when suiteStack[nesting - 1] is undefined
resolveStatusItem(s, e) ==
  IF s.impl = "legacy"
  THEN [item |-> s.suiteStack[e.nesting], threw |-> FALSE]
  ELSE IF e.nesting = 0
  THEN [item |-> findFileTestItem(e.name), threw |-> FALSE]
  ELSE LET parent == s.suiteStack[e.nesting - 1] IN
       IF parent = Absent THEN [item |-> Absent, threw |-> TRUE]
       ELSE LET testId == createTestId(parent, e.nesting, e.name) IN
            [item |-> IF testId \in s.testItemMap THEN testId ELSE Absent,
             threw |-> FALSE]

handleTestPass(s, e) ==
  LET r == resolveStatusItem(s, e) IN
  IF r.threw THEN [s EXCEPT !.last.threw = TRUE]
  ELSE IF r.item = Absent THEN s
  ELSE IF e.skip THEN Report(s, "skipped", r.item, 0)
  ELSE Report(s, "passed", r.item, e.duration)

handleTestFail(s, e) ==
  LET r == resolveStatusItem(s, e) IN
  IF r.threw THEN [s EXCEPT !.last.threw = TRUE]
  ELSE IF r.item = Absent THEN s
  ELSE Report(s, "failed", r.item, e.duration)

\* the level of suiteStack a pass or fail event is resolved with
levelUsed(s, e) == IF s.impl = "legacy" THEN e.nesting ELSE e.nesting - 1

StartEvents ==
  { [type |-> "test:start", name |-> n, nesting |-> k, testType |-> t, skip |-> FALSE,
     duration |-> 0] :
      n \in FileNames \cup TestNames, k \in 0..MaxNesting, t \in {"suite", "test"} }

PassEvents ==
  { [type |-> "test:pass", name |-> n, nesting |-> k, testType |-> "test", skip |-> sk,
     duration |-> d] :
      n \in FileNames \cup TestNames, k \in 0..MaxNesting, sk \in BOOLEAN, d \in {5} }

FailEvents ==
  { [type |-> "test:fail", name |-> n, nesting |-> k, testType |-> "test", skip |-> FALSE,
     duration |-> d] :
      n \in FileNames \cup TestNames, k \in 0..MaxNesting, d \in {5} }

\* events the worker emits: a file name at nesting 0, a test name below
Emitted(e) == (e.nesting = 0) <=> (e.name \in FileNames)

NoEvent == [type |-> "none", name |-> <<>>, nesting |-> 0, testType |-> "test",
            skip |-> FALSE, duration |-> 0]

\* what the last event did, and what the event sequence says about it
NoLast == [event |-> NoEvent, reports |-> {}, threw |-> FALSE, resolved |-> Absent,
           existed |-> FALSE, orphan |-> FALSE, matched |-> Absent]

\* the state in which an event is handled
Arrive(s, e) ==
  [s EXCEPT !.events = @ + 1,
            !.last = [NoLast EXCEPT !.event = e]]

\* the starts of the run that are open if the sequence is well nested so far
Opened(s, e, item) ==
  IF s.wellNested /\ e.nesting = Len(s.open)
  THEN [s EXCEPT !.open = Append(@, [name |-> e.name, nesting |-> e.nesting, item |-> item])]
  ELSE [s EXCEPT !.wellNested = FALSE, !.open = <<>>]

Matches(s, e) ==
  /\ s.wellNested
  /\ s.open # <<>>
  /\ s.open[Len(s.open)].name = e.name
  /\ s.open[Len(s.open)].nesting = e.nesting

Closed(s, e) ==
  IF Matches(s, e)
  THEN [s EXCEPT !.open = SubSeq(@, 1, Len(@) - 1)]
  ELSE [s EXCEPT !.wellNested = FALSE, !.open = <<>>]

NewRun_forgetItems(s) ==
  [s EXCEPT !.run = @ + 1,
            !.suiteStack = [k \in 0..MaxNesting |-> Absent],
            !.started = {},
            !.last = NoLast,
            !.open = <<>>,
            !.wellNested = TRUE,
            !.file = Absent,
            !.testItemMap = {},
            !.data = <<>>,
            !.adds = <<>>,
            !.detached = {}]

NewRun(s) ==
  [s EXCEPT !.run = @ + 1,
            !.suiteStack = [k \in 0..MaxNesting |-> Absent],
            !.started = {},
            !.last = NoLast,
            !.open = <<>>,
            !.wellNested = TRUE,
            !.file = Absent]

SyncInit ==
  /\ variant = "socket"
  /\ st = InitSt("socket")
  /\ procState = "none"
  /\ exitCode = NullCode
  /\ stderr = <<>>
  /\ childCloseFired = FALSE
  /\ childErrFired = FALSE
  /\ sockErrFired = FALSE
  /\ serverErrFired = FALSE
  /\ cancelRequested = FALSE
  /\ delivered = 0
  /\ tasks = {}
  /\ cmdCh = Idle
  /\ respCh = Idle
  /\ failMsg = Idle
  /\ worker = Idle
  /\ grouping = Idle
  /\ host = Idle
  /\ disc = Idle
  /\ \E impl \in {"handlers", "legacy"} :
       sync = [phase |-> "running", impl |-> impl, run |-> 1, events |-> 0,
               testItemMap |-> {}, data |-> <<>>, creations |-> <<>>, adds |-> <<>>,
               suiteStack |-> [k \in 0..MaxNesting |-> Absent], started |-> {},
               last |-> NoLast, open |-> <<>>, wellNested |-> TRUE,
               file |-> Absent, detached |-> {}]

\* runTests is called again: a new run and a new suiteStack
StartRun ==
  /\ sync.phase = "running"
  /\ sync.run < MaxRuns
  /\ sync' = NewRun(sync)
  /\ UNCHANGED <<sessionVars, cmdCh, respCh, failMsg, worker, grouping, host, disc>>

\* onEvent with a test:start event
TestStart ==
  /\ sync.phase = "running"
  /\ sync.events < MaxEvents
  /\ \E e \in StartEvents :
       /\ Emitted(e)
       /\ LET h == handleTestStart(Arrive(sync, e), e) IN
            sync' = [Opened(h, e, h.last.resolved) EXCEPT
                       !.file = IF e.nesting = 0 THEN e.name ELSE @]
  /\ UNCHANGED <<sessionVars, cmdCh, respCh, failMsg, worker, grouping, host, disc>>

\* onEvent with a test:pass event
TestPass ==
  /\ sync.phase = "running"
  /\ sync.events < MaxEvents
  /\ \E e \in PassEvents :
       /\ Emitted(e)
       /\ LET a == [Arrive(sync, e) EXCEPT
                      !.last.orphan = (e.nesting > 0
                                         /\ sync.suiteStack[levelUsed(sync, e)] = Absent),
                      !.last.matched = IF Matches(sync, e)
                                       THEN sync.open[Len(sync.open)].item ELSE Absent]
          IN sync' = Closed(handleTestPass(a, e), e)
  /\ UNCHANGED <<sessionVars, cmdCh, respCh, failMsg, worker, grouping, host, disc>>

\* onEvent with a test:fail event
TestFail ==
  /\ sync.phase = "running"
  /\ sync.events < MaxEvents
  /\ \E e \in FailEvents :
       /\ Emitted(e)
       /\ LET a == [Arrive(sync, e) EXCEPT
                      !.last.orphan = (e.nesting > 0
                                         /\ sync.suiteStack[levelUsed(sync, e)] = Absent),
                      !.last.matched = IF Matches(sync, e)
                                       THEN sync.open[Len(sync.open)].item ELSE Absent]
          IN sync' = Closed(handleTestFail(a, e), e)
  /\ UNCHANGED <<sessionVars, cmdCh, respCh, failMsg, worker, grouping, host, disc>>

\* between two runs the watcher reports a file deleted and then created:
\* deleteFileTestItem drops the file item with its children from the tree,
\* createFileTestItem makes a new item of the same id; testItemMap is untouched
RootRecreated ==
  /\ sync.phase = "running"
  /\ sync.last = NoLast
  /\ \E f \in Files :
       sync' = [sync EXCEPT
                  !.detached = @ \cup { pc[2] : pc \in { q \in DOMAIN sync.adds : q[1] = f } }]
  /\ UNCHANGED <<sessionVars, cmdCh, respCh, failMsg, worker, grouping, host, disc>>

SyncSpec ==
  SyncInit /\ [][StartRun \/ RootRecreated \/ TestStart \/ TestPass \/ TestFail]_vars

\* C17: a `start` event with the same (parent, nesting, name) key, applied any
\* number of times within a run or across runs, creates at most one node:
\* each identifier is created once and added to its parent once, and a later
\* `start` for the key resolves to that node.
C17_IdempotentCreation ==
  sync.phase = "running" =>
    /\ \A id \in DOMAIN sync.creations : sync.creations[id] = 1
    /\ \A pc \in DOMAIN sync.adds : sync.adds[pc] = 1
    /\ (sync.last.event.type = "test:start" /\ sync.last.event.nesting > 0
          /\ sync.last.resolved # Absent)
         => /\ sync.last.resolved \in sync.testItemMap
            /\ sync.last.resolved \in DOMAIN sync.creations

\* in a second run, a `start` for a key whose node an earlier `start` created
C17_Witness ==
  /\ sync.phase = "running"
  /\ sync.run = 2
  /\ sync.last.event.type = "test:start"
  /\ sync.last.existed
  /\ sync.creations[sync.last.resolved] = 1

\* C18: a `pass` or `fail` event at nesting N reports a status only for a node
\* that a `start` event at nesting N of the same run resolved before; a node
\* known from an earlier run only gets no status.
C18_StatusOnlyForStartedInRun ==
  sync.phase = "running" =>
    \A r \in sync.last.reports :
      r.kind # "started" => <<sync.last.event.nesting, r.item>> \in sync.started

\* C19: a `pass` or `fail` event at nesting N > 0 that finds no entry at the
\* level of suiteStack it is resolved with is dropped: no exception, no
\* status, and testItemMap, the tree and suiteStack stay as they were.
C19_OrphanStatusDropped ==
  [][ (sync'.phase = "running" /\ sync'.last.orphan)
        => /\ ~sync'.last.threw
           /\ sync'.last.reports = {}
           /\ sync'.testItemMap = sync.testItemMap
           /\ sync'.creations = sync.creations
           /\ sync'.adds = sync.adds
           /\ sync'.suiteStack = sync.suiteStack ]_vars

\* C20: in a well-nested event sequence, the `pass` for (name, N > 0) that
\* closes the `start` for (name, N) reports exactly one status, for the node
\* that `start` resolved, suite or leaf test: skipped if the skip flag is
\* set, else passed with the duration of the event.
C20_PassReportsStartedNode ==
  (sync.phase = "running" /\ sync.last.event.type = "test:pass"
     /\ sync.last.event.nesting > 0 /\ sync.last.matched # Absent)
    => sync.last.reports =
         { [kind |-> IF sync.last.event.skip THEN "skipped" ELSE "passed",
            item |-> sync.last.matched,
            duration |-> IF sync.last.event.skip THEN 0 ELSE sync.last.event.duration] }

\* C21: applying events never deletes a node: over every step, an event or
\* the start of a new run, the suite and test items of the tree and the
\* entries of testItemMap after the step include those before it, also the
\* items that no event of the current run names.
C21_NodesNeverDeleted ==
  [][ (sync.phase = "running" /\ sync'.phase = "running")
        => /\ { pc[2] : pc \in DOMAIN sync.adds } \subseteq { pc[2] : pc \in DOMAIN sync'.adds }
           /\ sync.testItemMap \subseteq sync'.testItemMap ]_vars

\* in a second run, after an event, an item of the first run that this run
\* has not started is in the tree
C21_Witness ==
  /\ sync.phase = "running"
  /\ sync.run = 2
  /\ sync.events > 0
  /\ \E id \in { pc[2] : pc \in DOMAIN sync.adds } : \A k \in 0..MaxNesting : <<k, id>> \notin sync.started

\* C29: immediately after a `start` event at nesting 0 has been processed for
\* a known file, slot 0 of suiteStack holds that file's item and every deeper
\* slot is empty or holds an item of that file, never one opened under a file
\* processed before.
C29_StackResetPerFile ==
  (sync.phase = "running" /\ sync.last.event.type = "test:start"
     /\ sync.last.event.nesting = 0 /\ sync.last.resolved # Absent)
    => /\ sync.suiteStack[0] = sync.last.resolved
       /\ \A k \in 1..MaxNesting :
            sync.suiteStack[k] # Absent
              => SubSeq(sync.suiteStack[k], 1, 1) = sync.last.resolved

\* C30: once a `start` event at nesting 0 has been processed for a known file
\* in the run, slot 0 of suiteStack is a file item in every later state of
\* the run.
C30_SlotZeroIsFile ==
  (sync.phase = "running" /\ \E f \in Files : <<0, f>> \in sync.started)
    => sync.suiteStack[0] \in Files

\* a suite start at depth 1 handled after the file's start: slot 1 is written
C30_Witness ==
  /\ sync.phase = "running"
  /\ sync.last.event.type = "test:start"
  /\ sync.last.event.testType = "suite"
  /\ sync.last.event.nesting = 1
  /\ sync.last.resolved # Absent
  /\ sync.suiteStack[1] = sync.last.resolved
  /\ sync.suiteStack[0] \in Files

\* ---------------------------------------------------------------------------
\* A test:fail event, from the error the worker holds to the message that
\* run.failed is given.  The worker sends the event with JSON.stringify and
\* the runner reads it with JSON.parse; handleTestFail then builds the
\* TestMessage.  The code is the same in the events module and in
\* testRunner.ts, at nesting 0 and below.
\* ---------------------------------------------------------------------------

\* the most lines of a stack
MaxFrames == 2

\* the state every specification but the first holds the run session in
SessionAtRest ==
  /\ variant = "socket"
  /\ st = InitSt("socket")
  /\ procState = "none"
  /\ exitCode = NullCode
  /\ stderr = <<>>
  /\ childCloseFired = FALSE
  /\ childErrFired = FALSE
  /\ sockErrFired = FALSE
  /\ serverErrFired = FALSE
  /\ cancelRequested = FALSE
  /\ delivered = 0
  /\ tasks = {}

\* lines of error.stack: the heading, `at label (file:line:column)` and
\* `at file:line:column`
StackLines ==
  { [at |-> FALSE, label |-> "", file |-> "", line |-> 0, column |-> 0],
    [at |-> TRUE, label |-> "fn", file |-> "/t.js", line |-> 3, column |-> 7],
    [at |-> TRUE, label |-> "", file |-> "/t.js", line |-> 1, column |-> 1] }

\* details.error as the test library yields it in the worker; the error and
\* its cause are Error instances or plain objects
Errors ==
  [class : {"Error", "Object"}, message : {Undefined, Some(""), Some("boom")},
   stack : {Undefined} \cup
           { Some(t) : t \in UNION { [1..n -> StackLines] : n \in 1..MaxFrames } },
   cause : {Undefined} \cup
           { Some(c) : c \in [class : {"Error", "Object"},
                               message : {Undefined, Some("root cause")},
                               stack : {Undefined}, cause : {Undefined}] }]

\* JSON.parse(JSON.stringify(v)): a plain object with the enumerable own
\* properties of v; message, stack and cause of an Error instance are not
\* enumerable
RECURSIVE jsonRoundTrip(_)
jsonRoundTrip(v) ==
  IF v.class = "Error"
  THEN [class |-> "Object", message |-> Undefined, stack |-> Undefined, cause |-> Undefined]
  ELSE [class |-> "Object", message |-> v.message, stack |-> v.stack,
        cause |-> IF v.cause.defined THEN Some(jsonRoundTrip(v.cause.value)) ELSE Undefined]

parseStackTrace(stack) ==
  LET lines == SelectSeq(stack, LAMBDA l : l.at) IN
  [i \in 1..Len(lines) |->
     [uri |-> lines[i].file, line |-> lines[i].line - 1, column |-> lines[i].column - 1,
      label |-> lines[i].label]]

\* the TestMessage handleTestFail passes to run.failed
testMessage(error) ==
  LET String == IF error.class = "Error" THEN "Error" ELSE "[object Object]"
      own == IF error.message.defined /\ error.message.value # ""
             THEN error.message ELSE Some(String)
      errorMessage == IF error.cause.defined /\ error.cause.value.class = "Error"
                      THEN error.cause.value.message
                      ELSE own
  IN [message |-> errorMessage,
      stackTrace |-> IF error.stack.defined /\ error.stack.value # <<>>
                     THEN Some(parseStackTrace(error.stack.value))
                     ELSE Undefined]

FailInit ==
  /\ SessionAtRest
  /\ cmdCh = Idle
  /\ respCh = Idle
  /\ sync = Idle
  /\ worker = Idle
  /\ grouping = Idle
  /\ host = Idle
  /\ disc = Idle
  /\ \E e \in Errors : failMsg = [phase |-> "thrown", error |-> e]

\* the worker sends the event and the runner parses the line
SendEvent ==
  /\ failMsg.phase = "thrown"
  /\ failMsg' = [phase |-> "received", thrown |-> failMsg.error,
                 error |-> jsonRoundTrip(failMsg.error)]
  /\ UNCHANGED <<sessionVars, cmdCh, respCh, sync, worker, grouping, host, disc>>

\* onEvent: handleTestFail for an item that was found
HandleTestFail ==
  /\ failMsg.phase = "received"
  /\ failMsg' = [phase |-> "reported", thrown |-> failMsg.thrown, error |-> failMsg.error,
                 message |-> testMessage(failMsg.error)]
  /\ UNCHANGED <<sessionVars, cmdCh, respCh, sync, worker, grouping, host, disc>>

FailSpec == FailInit /\ [][SendEvent \/ HandleTestFail]_vars

\* C25: for a fail event received from the worker, the message given to
\* run.failed is the message of the error's cause when the received error
\* carries one, else the error's own message; the stack frames attached are
\* those parsed from the stack of the received error itself.
C25_CauseMessagePreferred ==
  failMsg.phase = "reported" =>
    /\ (failMsg.error.cause.defined /\ failMsg.error.cause.value.message.defined)
         => failMsg.message.message = failMsg.error.cause.value.message
    /\ (~failMsg.error.cause.defined /\ failMsg.error.message.defined
          /\ failMsg.error.message.value # "")
         => failMsg.message.message = failMsg.error.message
    /\ failMsg.error.stack.defined
         => failMsg.message.stackTrace = Some(parseStackTrace(failMsg.error.stack.value))

\* ---------------------------------------------------------------------------
\* Configuration grouping (testItems/testItemRegistry.ts): resolveConfigForFile
\* and groupFilesByConfig.  A path is the sequence of its segments; a pattern
\* is a sequence of segments too, "*" for one segment and "**" for any number
\* of them, which is the part of minimatch the patterns of the README use.
\* ---------------------------------------------------------------------------

\* the most configurations in the settings, the most files of one request
MaxConfigs == 2
MaxFiles == 3

\* workspace.workspaceFolders, and the files a request can name: a file is
\* under the folder its path starts with
workspaceFolders == << <<"/", "w">> >>

TestFiles ==
  { [root |-> <<"/", "w">>, rel |-> << <<"a">>, <<"t">> >>],
    [root |-> <<"/", "w">>, rel |-> << <<"b">>, <<"t">> >>],
    [root |-> <<"/", "w">>, rel |-> << <<"t">> >>],
    [root |-> <<"/", "o">>, rel |-> << <<"t">> >>] }

\* normalized configurations of loadConfigurations
Configurations ==
  { [pattern |-> << <<"a">>, <<"*", "*">> >>, command |-> <<"n">>, runtimeArgs |-> <<>>,
     cwd |-> Undefined],
    [pattern |-> << <<"*", "*">> >>, command |-> <<"n">>, runtimeArgs |-> <<>>,
     cwd |-> Undefined],
    [pattern |-> << <<"*", "*">> >>, command |-> <<"b">>, runtimeArgs |-> << <<"-", "r">> >>,
     cwd |-> Some(<<"p">>)],
    [pattern |-> << <<"a">>, <<"*", "*">> >>, command |-> <<"b">>, runtimeArgs |-> <<>>,
     cwd |-> Some(<<"p">>)],
    [pattern |-> << <<"*">> >>, command |-> <<"n">>, runtimeArgs |-> <<>>,
     cwd |-> Some(<<"p">>)] }

\* segments joined with "/"
RECURSIVE joinPath(_)
joinPath(segs) ==
  IF segs = <<>> THEN <<>>
  ELSE Head(segs) \o (IF Len(segs) > 1 THEN <<"/">> \o joinPath(Tail(segs)) ELSE <<>>)

\* minimatch(normalizedPath, pattern, {dot: true})
RECURSIVE minimatch(_, _)
minimatch(p, g) ==
  IF g = <<>> THEN p = <<>>
  ELSE IF Head(g) = <<"*", "*">>
  THEN minimatch(p, Tail(g)) \/ (p # <<>> /\ minimatch(Tail(p), g))
  ELSE /\ p # <<>>
       /\ Head(g) = <<"*">> \/ Head(g) = Head(p)
       /\ minimatch(Tail(p), Tail(g))

\* the loop over the configurations from the first one; the result is the
\* ResolvedTestConfig of the first whose pattern matches, or the Error thrown
RECURSIVE firstMatch(_, _, _)
firstMatch(folder, rel, configurations) ==
  IF configurations = <<>> THEN [threw |-> TRUE]
  ELSE LET cfg == Head(configurations) IN
       IF minimatch(rel, cfg.pattern)
       THEN [threw |-> FALSE,
             config |-> [command |-> cfg.command,
                         runtimeArgs |-> cfg.runtimeArgs,
                         cwd |-> IF cfg.cwd.defined /\ cfg.cwd.value # <<>>
                                 THEN folder \o <<"/">> \o cfg.cwd.value ELSE folder,
                         workspaceFolder |-> folder,
                         matchedPattern |-> joinPath(cfg.pattern)]]
       ELSE firstMatch(folder, rel, Tail(configurations))

\* the loop over configurations taken from the last one
resolveConfigForFile_lastMatch(filePath, folders, configurations) ==
  IF \A i \in DOMAIN folders : folders[i] # filePath.root THEN [threw |-> TRUE]
  ELSE firstMatch(filePath.root, filePath.rel,
                  [i \in DOMAIN configurations |->
                     configurations[Len(configurations) + 1 - i]])

resolveConfigForFile(filePath, folders, configurations) ==
  IF \A i \in DOMAIN folders : folders[i] # filePath.root THEN [threw |-> TRUE]
  ELSE firstMatch(filePath.root, filePath.rel, configurations)

\* groupFilesByConfig from the file at the head of testFiles on; groups is
\* the Map in insertion order, empty at the call, its key
\* JSON.stringify({pattern, command, runtimeArgs, cwd})
RECURSIVE groupFilesByConfig(_, _, _, _)
groupFilesByConfig(groups, testFiles, folders, configurations) ==
  IF testFiles = <<>> THEN [threw |-> FALSE, groups |-> groups]
  ELSE LET file == Head(testFiles)
           r == resolveConfigForFile(file, folders, configurations)
           configKey == <<"{">> \o quote(r.config.matchedPattern) \o <<",">>
                          \o quote(r.config.command) \o <<",">>
                          \o array(r.config.runtimeArgs) \o <<",">>
                          \o quote(r.config.cwd) \o <<"}">>
           pushed == IF \E i \in DOMAIN groups : groups[i].key = configKey
                     THEN [i \in DOMAIN groups |->
                             IF groups[i].key = configKey
                             THEN [groups[i] EXCEPT !.files = Append(@, file)]
                             ELSE groups[i]]
                     ELSE Append(groups, [key |-> configKey, config |-> r.config,
                                          files |-> <<file>>])
       IN IF r.threw THEN [threw |-> TRUE, file |-> file]
          ELSE groupFilesByConfig(pushed, Tail(testFiles), folders, configurations)

GroupInit ==
  /\ SessionAtRest
  /\ cmdCh = Idle
  /\ respCh = Idle
  /\ sync = Idle
  /\ failMsg = Idle
  /\ worker = Idle
  /\ host = Idle
  /\ disc = Idle
  /\ \E n \in 0..MaxFiles, m \in 1..MaxConfigs :
       \E files \in [1..n -> TestFiles], configurations \in [1..m -> Configurations] :
         grouping = [phase |-> "called", testFiles |-> files,
                     configurations |-> configurations]

\* groupFilesByConfig(testFiles, workspaceFolders, configurations)
GroupFiles ==
  /\ grouping.phase = "called"
  /\ grouping' = [phase |-> "returned", testFiles |-> grouping.testFiles,
                  configurations |-> grouping.configurations,
                  result |-> groupFilesByConfig(<<>>, grouping.testFiles,
                                                workspaceFolders,
                                                grouping.configurations)]
  /\ UNCHANGED <<sessionVars, cmdCh, respCh, sync, failMsg, worker, host, disc>>

GroupSpec == GroupInit /\ [][GroupFiles]_vars

\* C28: groupFilesByConfig fails with an error exactly when some file matches
\* no pattern; otherwise every input file is in exactly one group, the group
\* of the first configuration in order whose pattern matches it; the files of
\* a group share pattern, command, runtimeArgs and cwd, and are in input order.
C28_GroupingByFirstMatch ==
  grouping.phase = "returned" =>
    LET files == grouping.testFiles
        cfgs == grouping.configurations
        r == grouping.result
        Matching(f) == IF f.root # workspaceFolders[1] THEN {}
                       ELSE { i \in DOMAIN cfgs : minimatch(f.rel, cfgs[i].pattern) }
        First(f) == cfgs[CHOOSE i \in Matching(f) : \A j \in Matching(f) : i <= j]
        Cwd(f) == IF First(f).cwd.defined THEN f.root \o <<"/">> \o First(f).cwd.value
                  ELSE f.root
        Same(f, c) == /\ c.matchedPattern = joinPath(First(f).pattern)
                      /\ c.command = First(f).command
                      /\ c.runtimeArgs = First(f).runtimeArgs
                      /\ c.cwd = Cwd(f)
    IN /\ r.threw <=> \E i \in DOMAIN files : Matching(files[i]) = {}
       /\ ~r.threw =>
            /\ \A i \in DOMAIN files :
                 \E g \in DOMAIN r.groups :
                   /\ \E k \in DOMAIN r.groups[g].files : r.groups[g].files[k] = files[i]
                   /\ \A h \in DOMAIN r.groups :
                        (\E k \in DOMAIN r.groups[h].files : r.groups[h].files[k] = files[i])
                          => h = g
            /\ \A g \in DOMAIN r.groups :
                 /\ \A k \in DOMAIN r.groups[g].files :
                      Same(r.groups[g].files[k], r.groups[g].config)
                 /\ r.groups[g].files =
                      SelectSeq(files, LAMBDA f : Same(f, r.groups[g].config))

\* two groups, one of them with two files, and a file that two patterns match
C28_Witness ==
  /\ grouping.phase = "returned"
  /\ ~grouping.result.threw
  /\ Len(grouping.result.groups) = 2
  /\ \E g \in DOMAIN grouping.result.groups : Len(grouping.result.groups[g].files) = 2
  /\ \E i \in DOMAIN grouping.testFiles :
       \A j \in DOMAIN grouping.configurations :
         /\ Len(grouping.configurations) = 2
         /\ minimatch(grouping.testFiles[i].rel, grouping.configurations[j].pattern)

\* ---------------------------------------------------------------------------
\* The worker script: runner.js ("socket", responses through the socket, the
\* diagnostics on stderr) and the script that writes frames to stdout
\* ("stdio").  Startup, the commands of the runner, the loop over the events
\* of the test module, and the exits the script schedules.
\* ---------------------------------------------------------------------------

\* the most events the test module yields in one run
MaxYield == 2

\* protocol.sendError / safeSend of an error: over the channel if it is
\* connected, else console.error
sendError(w) ==
  IF w.script = "stdio" \/ w.connected
  THEN [w EXCEPT !.sent = Append(@, "error")]
  ELSE [w EXCEPT !.diag = @ + 1]

\* loadBeartestModule that reports the error and goes on
loadBeartestModule_noExit(w) ==
  IF ~w.env.modulePath \/ ~w.env.loadable THEN sendError(w) ELSE w

\* loadBeartestModule, and the start of the stdio script: process.exit(1)
\* after the error when the variable is not set or require throws
loadBeartestModule(w) ==
  IF ~w.env.modulePath \/ ~w.env.loadable
  THEN [sendError(w) EXCEPT !.phase = "exited", !.exit = 1]
  ELSE w

WorkerInit ==
  /\ SessionAtRest
  /\ cmdCh = Idle
  /\ respCh = Idle
  /\ sync = Idle
  /\ failMsg = Idle
  /\ grouping = Idle
  /\ host = Idle
  /\ disc = Idle
  /\ \E script \in {"socket", "stdio"},
        env \in [socketPath : BOOLEAN, modulePath : BOOLEAN, loadable : BOOLEAN] :
       worker = [phase |-> "starting", script |-> script, env |-> env,
                 connected |-> FALSE, sent |-> <<>>, diag |-> 0, exit |-> NullCode,
                 timers |-> {}, shouldCancel |-> FALSE, run |-> "none", runAt |-> 0,
                 yielded |-> 0, success |-> TRUE, cancelAt |-> NullCode,
                 cancelRun |-> "none"]

\* main of runner.js, the top level of the stdio script
WorkerStart ==
  /\ worker.phase = "starting"
  /\ \E connects \in BOOLEAN :
       LET failed == [worker EXCEPT !.diag = @ + 1, !.phase = "exited", !.exit = 1]
           w == loadBeartestModule([worker EXCEPT !.connected = (worker.script = "socket")])
       IN worker' =
            IF worker.script = "socket" /\ (~worker.env.socketPath \/ ~connects)
            THEN failed
            ELSE IF w.phase = "exited" THEN w
            ELSE [w EXCEPT !.phase = "ready", !.sent = Append(@, "ready")]
  /\ UNCHANGED <<sessionVars, cmdCh, respCh, sync, failMsg, grouping, host, disc>>

\* handleCommand: run starts the loop, cancel sets the flag and schedules
\* exit(0), shutdown exits
HandleCommand ==
  /\ worker.phase = "ready"
  /\ \E type \in {"run", "cancel", "shutdown"} :
       /\ type = "run" => worker.run = "none"
       /\ type = "cancel" => ~worker.shouldCancel
       /\ worker' =
            CASE type = "run" ->
                   [worker EXCEPT !.run = "running", !.runAt = Len(worker.sent),
                                  !.shouldCancel = FALSE]
              [] type = "cancel" ->
                   [worker EXCEPT !.shouldCancel = TRUE, !.timers = @ \cup {0},
                                  !.cancelAt = Len(worker.sent),
                                  !.cancelRun = worker.run]
              [] type = "shutdown" ->
                   [worker EXCEPT !.phase = "exited", !.exit = 0]
  /\ UNCHANGED <<sessionVars, cmdCh, respCh, sync, failMsg, grouping, host, disc>>

\* handleRunCommand / runTests resumed by the test module: it yields an event,
\* ends, or throws.  A send on a closed socket throws: the catch block cannot
\* send either, and the unhandledRejection handler exits with 1.
RunStep ==
  /\ worker.phase = "ready"
  /\ worker.run = "running"
  /\ \E step \in {"event", "end", "throw"} :
       LET up == worker.script = "stdio" \/ worker.connected
           lost == [worker EXCEPT !.diag = @ + 2, !.phase = "exited", !.exit = 1]
           complete(w, code) ==
             [w EXCEPT !.sent = Append(@, "complete"), !.run = "done",
                       !.success = (code = 0 /\ ~w.shouldCancel),
                       !.timers = IF w.script = "socket" THEN @ \cup {code} ELSE @]
       IN /\ step = "event" => worker.yielded < MaxYield
          /\ worker' =
               IF ~up THEN lost
               ELSE IF step = "throw" THEN complete(sendError(worker), 1)
               ELSE IF step = "end" \/ worker.shouldCancel THEN complete(worker, 0)
               ELSE [worker EXCEPT !.sent = Append(@, "event"), !.yielded = @ + 1]
  /\ UNCHANGED <<sessionVars, cmdCh, respCh, sync, failMsg, grouping, host, disc>>

\* a setTimeout(() => process.exit(code), 100) fires
ExitTimer ==
  /\ worker.phase = "ready"
  /\ \E code \in worker.timers :
       worker' = [worker EXCEPT !.phase = "exited", !.exit = code]
  /\ UNCHANGED <<sessionVars, cmdCh, respCh, sync, failMsg, grouping, host, disc>>

\* socket.on("close"): isConnected = false
WorkerSocketClose ==
  /\ worker.phase = "ready"
  /\ worker.script = "socket"
  /\ worker.connected
  /\ worker' = [worker EXCEPT !.connected = FALSE]
  /\ UNCHANGED <<sessionVars, cmdCh, respCh, sync, failMsg, grouping, host, disc>>

WorkerSpec ==
  WorkerInit /\ [][WorkerStart \/ HandleCommand \/ RunStep \/ ExitTimer \/ WorkerSocketClose]_vars

\* C26: the responses the worker sends for a run command are events followed
\* by one terminal response, complete or error: never a second terminal
\* response, never an event after it, and exactly one once the run command
\* has been handled to its end.
C26_OneTerminalResponse ==
  worker.phase # "idle" =>
    LET out == SubSeq(worker.sent, worker.runAt + 1, Len(worker.sent))
        terminal == { i \in DOMAIN out : out[i] \in {"complete", "error"} }
    IN worker.run # "none" =>
         /\ Cardinality(terminal) <= 1
         /\ \A i \in terminal : \A j \in DOMAIN out : j > i => out[j] # "event"
         /\ worker.run = "done" => Cardinality(terminal) = 1

\* C27: a worker started without a required environment variable, or with a
\* module that cannot be loaded, never sends ready and never handles a run
\* command; it has sent an error response when it has a channel, written to
\* stderr when not, and has exited with a code other than 0.
C27_FatalStartup ==
  (/\ worker.phase \notin {"idle", "starting"}
   /\ \/ ~worker.env.modulePath
      \/ ~worker.env.loadable
      \/ worker.script = "socket" /\ ~worker.env.socketPath)
    => /\ \A i \in DOMAIN worker.sent : worker.sent[i] # "ready"
       /\ worker.run = "none"
       /\ worker.phase = "exited"
       /\ worker.exit = 1
       /\ IF worker.script = "stdio" \/ worker.connected
          THEN worker.sent = <<"error">> ELSE worker.diag > 0

\* the module cannot be loaded: the error went over the connected socket
C27_Witness ==
  /\ worker.phase = "exited"
  /\ worker.script = "socket"
  /\ worker.connected
  /\ worker.env.modulePath /\ ~worker.env.loadable
  /\ worker.sent = <<"error">>
  /\ worker.exit = 1

\* ---------------------------------------------------------------------------
\* TestRunner.runTests around the run session: the test run it creates, the
\* continuation of `await runWithProtocol(...)`, the messages shown with
\* showErrorMessage (by handlers.onError and by the catch block), and further
\* requests of the run profile.
\* ---------------------------------------------------------------------------

\* the most requests of the run profile
MaxRequests == 2

\* the catch block without run.end()
resume_noEndInCatch(h, outcome) ==
  IF outcome = "resolved"
  THEN [h EXCEPT !.phase = "returned", !.ended = @ + 1]
  ELSE [h EXCEPT !.phase = "returned", !.shown = @ + 1]

\* runTests after the await: run.end(), or the catch block, showErrorMessage
\* and run.end()
resume(h, outcome) ==
  IF outcome = "resolved"
  THEN [h EXCEPT !.phase = "returned", !.ended = @ + 1]
  ELSE [h EXCEPT !.phase = "returned", !.shown = @ + 1, !.ended = @ + 1]

\* runTests has called createTestRun and runWithProtocol
HostInit ==
  /\ variant \in Variants
  /\ st = InitSt(variant)
  /\ procState = "none"
  /\ exitCode = NullCode
  /\ stderr = <<>>
  /\ childCloseFired = FALSE
  /\ childErrFired = FALSE
  /\ sockErrFired = FALSE
  /\ serverErrFired = FALSE
  /\ cancelRequested = FALSE
  /\ delivered = 0
  /\ tasks = {}
  /\ cmdCh = Idle
  /\ respCh = Idle
  /\ sync = Idle
  /\ failMsg = Idle
  /\ worker = Idle
  /\ grouping = Idle
  /\ host = [phase |-> "awaiting", requests |-> 1, handles |-> 1, others |-> 0,
             ended |-> 0, shown |-> 0]
  /\ disc = Idle

\* the promise of the session is settled: runTests goes on
RunTestsResume ==
  /\ host.phase = "awaiting"
  /\ st.outcome # "pending"
  /\ host' = resume(host, st.outcome)
  /\ UNCHANGED <<sessionVars, cmdCh, respCh, sync, failMsg, worker, grouping, disc>>

HostSpec == HostInit /\ [][Next \/ RunTestsResume]_vars

\* the child's close event follows its exit, the continuation of an await
\* follows the settling of its promise
HostLiveSpec ==
  /\ HostSpec
  /\ WF_vars(TimerFire)
  /\ WF_vars(ProcExit /\ st.killed)
  /\ WF_vars(ChildClose)
  /\ WF_vars(RunTestsResume)

\* the run profile calls runTests again: createTestRun and a session of its own
RunTestsAgain ==
  /\ host.phase # "idle"
  /\ host.requests < MaxRequests
  /\ host' = [host EXCEPT !.requests = @ + 1, !.handles = @ + 1, !.others = @ + 1]
  /\ UNCHANGED <<sessionVars, cmdCh, respCh, sync, failMsg, worker, grouping, disc>>

\* the session of another request ends, and its runTests returns
OtherRunEnds ==
  /\ host.phase # "idle"
  /\ host.others > 0
  /\ host' = [host EXCEPT !.others = @ - 1]
  /\ UNCHANGED <<sessionVars, cmdCh, respCh, sync, failMsg, worker, grouping, disc>>

ConcurrentSpec ==
  HostInit /\ [][Next \/ RunTestsResume \/ RunTestsAgain \/ OtherRunEnds]_vars

\* C22: a request that arrives while a run is in flight has no effect: no
\* test run is created for it and no session is started, so that at most one
\* run is in flight.
C22_SecondRequestRejected ==
  [][ (host.phase = "awaiting" /\ host'.requests > host.requests)
        => /\ host'.handles = host.handles
           /\ host'.others = host.others ]_vars

\* C23: once runTests has returned, a run whose session was rejected has shown
\* exactly one message, and a run that completed or was cancelled has shown
\* none, whatever arrives later.
C23_OneMessagePerFailure ==
  host.phase = "returned" =>
    /\ st.outcome = "rejected" => host.shown + st.nOnError = 1
    /\ st.cause \in {"complete", "cancel"} => host.shown + st.nOnError = 0

\* C24: the test run is ended at most once, and once the worker process has
\* exited or cancellation has been requested the session is eventually
\* settled and runTests has returned with the test run ended once.
C24_RunEndsOnce ==
  /\ [](host.phase # "idle" => host.ended <= 1)
  /\ (host.phase # "idle" /\ (cancelRequested \/ procState = "exited"))
       ~> (st.outcome # "pending" /\ host.phase = "returned" /\ host.ended = 1)

\* the worker crashed: the session was rejected by the close event, the catch
\* block has ended the test run
C24_Witness ==
  /\ host.phase = "returned"
  /\ host.ended = 1
  /\ st.cause = "exitNonZero"
  /\ ~cancelRequested

\* C31: every entry of suiteStack at depth N > 0 is an item recorded as a
\* suite with nesting level N, also when the key of the item is reported as
\* a test in one start event and as a suite in another.
C31_StackHoldsSuites ==
  sync.phase = "running" =>
    \A k \in 1..MaxNesting :
      sync.suiteStack[k] # Absent
        => /\ sync.data[sync.suiteStack[k]].type = "suite"
           /\ sync.data[sync.suiteStack[k]].nestingLevel = k

\* C32: a `start` event at nesting N > 0 handled while suiteStack[N-1] is
\* empty changes nothing: no item is created or added, nothing is reported,
\* testItemMap and suiteStack stay as they were, and the handler returns
\* normally, so that the events after it are handled.
C32_OrphanStartIgnored ==
  [][ (/\ sync.phase = "running"
       /\ sync'.phase = "running"
       /\ sync'.events = sync.events + 1
       /\ sync'.last.event.type = "test:start"
       /\ sync'.last.event.nesting > 0
       /\ sync.suiteStack[sync'.last.event.nesting - 1] = Absent)
        => /\ sync'.last.reports = {}
           /\ ~sync'.last.threw
           /\ sync'.testItemMap = sync.testItemMap
           /\ sync'.data = sync.data
           /\ sync'.creations = sync.creations
           /\ sync'.adds = sync.adds
           /\ sync'.suiteStack = sync.suiteStack
           /\ sync'.started = sync.started ]_vars

\* a start below an empty slot of the stack was handled after an earlier event
C32_Witness ==
  /\ sync.phase = "running"
  /\ sync.events >= 2
  /\ sync.last.event.type = "test:start"
  /\ sync.last.event.nesting > 0
  /\ sync.suiteStack[sync.last.event.nesting - 1] = Absent
  /\ sync.last.resolved = Absent
  /\ sync.last.reports = {}

\* C33: the filter built for a request that includes tests or suites is the
\* list, top down, of the names from the direct child of the file to the
\* first test or suite of the request; a request with no items, or with file
\* items only, has no filter.
C33_OnlyFilterIsPathOfFirstNested ==
  cmdCh.phase = "built" =>
    LET r == cmdCh.request
        nested == IF "include" \in DOMAIN r
                  THEN { i \in DOMAIN r.include : r.include[i].type = "test" }
                  ELSE {}
        onlyFiles == \/ "include" \notin DOMAIN r
                     \/ \A i \in DOMAIN r.include : r.include[i].type = "file"
    IN /\ nested # {} =>
            cmdCh.only = Some(r.include[CHOOSE i \in nested : \A j \in nested : i <= j].path)
       /\ onlyFiles => cmdCh.only = Undefined

\* C35: the item resolved by a `start` at nesting N > 0 whose parent slot is
\* filled is a child of that parent in the tree, also after the discovery
\* deleted the file item and created it again between two runs.
C35_ResolvedIsAttached ==
  (/\ sync.phase = "running"
   /\ sync.last.event.type = "test:start"
   /\ sync.last.event.nesting > 0
   /\ sync.last.resolved # Absent)
    => sync.last.resolved \notin sync.detached

\* C37: an item created while the events of file F are handled (after the
\* `start` at nesting 0 that names F and before the next one) is created
\* beneath the file item of F, also when F is not among the file items.
C37_CreatedUnderItsFile ==
  [][ (/\ sync.phase = "running"
       /\ sync'.phase = "running"
       /\ sync'.events = sync.events + 1
       /\ sync'.last.event.type = "test:start"
       /\ sync'.last.event.nesting > 0
       /\ sync.file # Absent
       /\ DOMAIN sync'.adds # DOMAIN sync.adds)
        => /\ sync.file \in Files
           /\ SubSeq(sync'.last.resolved, 1, Len(sync.file) + 2) = sync.file \o <<":", ":">> ]_vars

\* ------------------------------------------------------ identifiers of items
\* createOrGetTestItem called as handleTestStart calls it, with any item of the
\* tree in the slot of the parent and the nesting level below the parent's; one
\* of the names holds the separator of the identifiers
ResolveKey ==
  /\ sync.phase = "running"
  /\ sync.events < MaxEvents
  /\ \E parent \in Files \cup sync.testItemMap,
        name \in { <<"a">>, <<"b">>, <<"a", ":", ":", "2", ":", ":", "b">> },
        testType \in {"suite", "test"} :
       LET nesting == IF parent \in Files THEN 1 ELSE sync.data[parent].nestingLevel + 1
           e == [NoEvent EXCEPT !.type = "test:start", !.name = name,
                                !.nesting = nesting, !.testType = testType]
       IN /\ nesting <= MaxNesting + 1
          /\ sync' = createOrGetTestItem(
                       [Arrive(sync, e) EXCEPT !.suiteStack[nesting - 1] = parent],
                       parent, name, nesting, testType)
  /\ UNCHANGED <<sessionVars, cmdCh, respCh, failMsg, worker, grouping, host, disc>>

IdSpec == SyncInit /\ [][ResolveKey]_vars

\* C38: the identifier is injective on (parent, nesting, name), for names
\* that hold "::" too: the item createOrGetTestItem returns for a key is the
\* item of that key, with the name and the nesting level of the key, added to
\* the children of the parent of the key.
C38_IdentifierInjective ==
  (/\ sync.phase = "running"
   /\ sync.last.event.type = "test:start"
   /\ sync.last.event.nesting > 0
   /\ sync.last.resolved # Absent)
    => /\ sync.data[sync.last.resolved].fullName = sync.last.event.name
       /\ sync.data[sync.last.resolved].nestingLevel = sync.last.event.nesting
       /\ <<sync.suiteStack[sync.last.event.nesting - 1], sync.last.resolved>>
            \in DOMAIN sync.adds

\* C36: once run.end() has been called for the test run nothing more is
\* reported to it: no `event` response is handed to onEvent and no output of
\* the worker process is handed to onOutput, under every interleaving of
\* cancellation, terminal responses, process exit and arriving responses.
C36_NothingReportedAfterEnd ==
  [][ (host.phase = "returned" /\ host.ended > 0)
        => /\ st'.inProgress \subseteq st.inProgress
           /\ stderr' = stderr ]_vars

\* C40: once the worker has handled a `cancel` command that arrived before the
\* run or while it was under way, it sends no further `event` response and a
\* `complete` response it sends afterwards carries success = false.
C40_NothingAfterCancel ==
  (/\ worker.phase # "idle"
   /\ worker.cancelAt # NullCode
   /\ worker.cancelRun # "done")
    => /\ \A i \in DOMAIN worker.sent : i > worker.cancelAt => worker.sent[i] # "event"
       /\ (\E j \in DOMAIN worker.sent : j > worker.cancelAt /\ worker.sent[j] = "complete")
            => ~worker.success

\* ---------------------------------------------------------------------------
\* The test discovery (testDiscovery.ts) and the files of a run
\* (getTestFilesToRun).  The tree under controller.items is the sequence of
\* its folder and file items in the order they were added.  An item is named
\* by its kind and its path relative to the workspace folder, as its id is;
\* its collection is the children of the folder item of the path without the
\* last part, or controller.items.  A "test" item stands for a test or suite
\* beneath the file item of its path.
\* ---------------------------------------------------------------------------

\* the most items a request for files includes
MaxSelect == 1

\* the test files the watcher reports, as pathParts
DiscFiles == { <<"t">>, <<"u">>, <<"d", "t">>, <<"d", "e", "t">> }

\* the items of the collection of the item with path p, in forEach order
children(tree, p) ==
  SelectSeq(tree, LAMBDA n : /\ Len(n.path) = Len(p) + 1
                             /\ SubSeq(n.path, 1, Len(p)) = p
                             /\ n.kind # "test")

\* TestItemCollection.delete: the item goes with everything beneath it
delete(tree, item) ==
  SelectSeq(tree, LAMBDA n : /\ n # item
                             /\ ~(/\ item.kind = "folder"
                                  /\ Len(n.path) > Len(item.path)
                                  /\ SubSeq(n.path, 1, Len(item.path)) = item.path))

\* the folder items of the path that are missing are created in turn, then
\* the file item if it is missing
createFileTestItem(tree, pathParts) ==
  LET present == { tree[k] : k \in DOMAIN tree }
      folders == [i \in 1..(Len(pathParts) - 1) |->
                    [kind |-> "folder", path |-> SubSeq(pathParts, 1, i)]]
      fileItem == [kind |-> "file", path |-> pathParts]
  IN tree \o SelectSeq(folders, LAMBDA n : n \notin present)
          \o (IF fileItem \in present THEN <<>> ELSE <<fileItem>>)

\* from the parent folder upwards: a folder item that is found and has no
\* children is deleted, the first one that is missing or not empty ends the loop
cleanupEmptyFolders(tree, pathParts) ==
  LET RECURSIVE up(_, _)
      up(t, i) ==
        LET folderItem == [kind |-> "folder", path |-> SubSeq(pathParts, 1, i)]
            found == \A j \in 1..i :
                       \E k \in DOMAIN t :
                         t[k] = [kind |-> "folder", path |-> SubSeq(pathParts, 1, j)]
        IN IF i < 1 THEN t
           ELSE IF found /\ children(t, folderItem.path) = <<>>
           THEN up(delete(t, folderItem), i - 1)
           ELSE t
  IN up(tree, Len(pathParts) - 1)

\* deleteFileTestItem that leaves the folders as they are
deleteFileTestItem_noCleanup(tree, pathParts) ==
  IF \A i \in 1..(Len(pathParts) - 1) :
       \E k \in DOMAIN tree :
         tree[k] = [kind |-> "folder", path |-> SubSeq(pathParts, 1, i)]
  THEN delete(tree, [kind |-> "file", path |-> pathParts])
  ELSE tree

\* returns if a folder of the path is missing; else deletes the file item
\* from the collection of its folder and cleans up
deleteFileTestItem(tree, pathParts) ==
  IF \A i \in 1..(Len(pathParts) - 1) :
       \E k \in DOMAIN tree :
         tree[k] = [kind |-> "folder", path |-> SubSeq(pathParts, 1, i)]
  THEN cleanupEmptyFolders(delete(tree, [kind |-> "file", path |-> pathParts]), pathParts)
  ELSE tree

\* the file path of a file item, added to `files` unless it is there; for
\* another item `files` followed by what each child returns for `files`
RECURSIVE collectFilesFromItem(_, _, _)
collectFilesFromItem(tree, item, files) ==
  IF item.kind = "file"
  THEN IF \E k \in DOMAIN files : files[k] = item.path
       THEN files ELSE Append(files, item.path)
  ELSE LET RECURSIVE childFiles(_)
           childFiles(cs) ==
             IF cs = <<>> THEN <<>>
             ELSE collectFilesFromItem(tree, Head(cs), files) \o childFiles(Tail(cs))
       IN files \o childFiles(children(tree, item.path))

\* with `include`: the files of the folders and the file of every other item,
\* each pushed unless it is there; without: what collectFilesFromItem returns
\* for every item of controller.items, pushed onto `files`
getTestFilesToRun(tree, request) ==
  LET has(files, f) == \E k \in DOMAIN files : files[k] = f
      RECURSIVE pushNew(_, _)
      pushNew(files, more) ==
        IF more = <<>> THEN files
        ELSE pushNew(IF has(files, Head(more)) THEN files ELSE Append(files, Head(more)),
                     Tail(more))
      RECURSIVE included(_, _)
      included(items, files) ==
        IF items = <<>> THEN files
        ELSE LET item == Head(items) IN
             IF item.kind = "folder" /\ children(tree, item.path) # <<>>
             THEN included(Tail(items), pushNew(files, collectFilesFromItem(tree, item, <<>>)))
             ELSE IF item.kind = "folder" THEN included(Tail(items), files)
             ELSE included(Tail(items), pushNew(files, <<item.path>>))
      RECURSIVE all(_, _)
      all(roots, files) ==
        IF roots = <<>> THEN files
        ELSE all(Tail(roots), files \o collectFilesFromItem(tree, Head(roots), files))
  IN IF request.defined THEN included(request.value, <<>>)
     ELSE all(children(tree, <<>>), <<>>)

\* createTestDiscovery in a workspace folder without test files: no item yet
DiscInit ==
  /\ SessionAtRest
  /\ cmdCh = Idle
  /\ respCh = Idle
  /\ sync = Idle
  /\ failMsg = Idle
  /\ worker = Idle
  /\ grouping = Idle
  /\ host = Idle
  /\ disc = [phase |-> "watching", tree |-> <<>>, live |-> {},
             last |-> [op |-> "none", path |-> <<>>],
             include |-> Undefined, files |-> <<>>]

\* watcher.onDidCreate; the files of an earlier request are of no use any more
FileCreated ==
  /\ disc.phase = "watching"
  /\ \E f \in DiscFiles :
       disc' = [disc EXCEPT !.tree = createFileTestItem(@, f),
                            !.live = @ \cup {f},
                            !.last = [op |-> "created", path |-> f],
                            !.include = Undefined,
                            !.files = <<>>]
  /\ UNCHANGED <<sessionVars, cmdCh, respCh, sync, failMsg, worker, grouping, host>>

\* watcher.onDidDelete
FileDeleted ==
  /\ disc.phase = "watching"
  /\ \E f \in DiscFiles :
       disc' = [disc EXCEPT !.tree = deleteFileTestItem(@, f),
                            !.live = @ \ {f},
                            !.last = [op |-> "deleted", path |-> f],
                            !.include = Undefined,
                            !.files = <<>>]
  /\ UNCHANGED <<sessionVars, cmdCh, respCh, sync, failMsg, worker, grouping, host>>

\* runTests: the files of a request that includes items of the tree, or none
GetFiles ==
  /\ disc.phase = "watching"
  /\ LET items == { disc.tree[k] : k \in DOMAIN disc.tree }
                    \cup { [kind |-> "test", path |-> disc.tree[k].path] :
                             k \in { j \in DOMAIN disc.tree : disc.tree[j].kind = "file" } }
     IN \E request \in {Undefined}
                         \cup { Some(inc) : inc \in UNION { [1..n -> items] : n \in 0..MaxSelect } } :
          disc' = [disc EXCEPT !.include = request,
                               !.files = getTestFilesToRun(disc.tree, request),
                               !.last = [op |-> "files", path |-> <<>>]]
  /\ UNCHANGED <<sessionVars, cmdCh, respCh, sync, failMsg, worker, grouping, host>>

DiscSpec == DiscInit /\ [][FileCreated \/ FileDeleted \/ GetFiles]_vars

\* C34: the files of a request hold no path twice, and they are the files
\* selected: for a request with `include` the files beneath its folders and
\* the file of each other item, for a request without it every file item of
\* the tree.
C34_FilesOnceAndExact ==
  (disc.phase = "watching" /\ disc.last.op = "files") =>
    LET inTree == { disc.tree[k].path :
                      k \in { j \in DOMAIN disc.tree : disc.tree[j].kind = "file" } }
        under(item) ==
          IF item.kind = "folder"
          THEN { p \in inTree : /\ Len(p) > Len(item.path)
                                /\ SubSeq(p, 1, Len(item.path)) = item.path }
          ELSE {item.path}
        selected ==
          IF disc.include.defined
          THEN UNION { under(disc.include.value[k]) : k \in DOMAIN disc.include.value }
          ELSE inTree
    IN /\ \A i, j \in DOMAIN disc.files : disc.files[i] = disc.files[j] => i = j
       /\ { disc.files[k] : k \in DOMAIN disc.files } = selected

\* C39: after any sequence of notifications the tree holds one file item for
\* every file created and not deleted since, with the folder items of its
\* path, no file item for another file, and no folder item without a file
\* item beneath it.
C39_TreeMatchesLiveFiles ==
  disc.phase = "watching" =>
    LET count(item) == Cardinality({ k \in DOMAIN disc.tree : disc.tree[k] = item }) IN
    /\ \A f \in DiscFiles :
         count([kind |-> "file", path |-> f]) = IF f \in disc.live THEN 1 ELSE 0
    /\ \A f \in disc.live : \A i \in 1..(Len(f) - 1) :
         count([kind |-> "folder", path |-> SubSeq(f, 1, i)]) = 1
    /\ \A k \in DOMAIN disc.tree :
         disc.tree[k].kind = "folder"
           => \E f \in disc.live :
                /\ Len(f) > Len(disc.tree[k].path)
                /\ SubSeq(f, 1, Len(disc.tree[k].path)) = disc.tree[k].path

\* the last file of d/e was deleted while d/t is there: e is gone, d remains
C39_Witness ==
  /\ disc.phase = "watching"
  /\ disc.last = [op |-> "deleted", path |-> <<"d", "e", "t">>]
  /\ disc.live = { <<"d", "t">>, <<"u">> }
  /\ Len(disc.tree) = 3

====================================================================
